---- MODULE Spec2Model ----
(***************************************************************************)
(* Timeline layout and routing engine of NovelCreate                      *)
(* (src/components/TimelineView.tsx):  date normalisation, day columns,   *)
(* storyline lanes, event rectangles, connection ports and the hover      *)
(* highlight.                                                             *)
(*                                                                        *)
(* Strings are sequences of one-character tokens.  A CJK character is one *)
(* token, written with its pinyin: <<"gong","yuan","ji","nian">> is the   *)
(* four-character era name of line 84 of TimelineView.tsx.                *)
(*                                                                        *)
(* Numbers.  An order key is a JavaScript double.  Every finite key the   *)
(* model produces is a decimal with at most ten fraction digits and is    *)
(* held exactly as <<days, ms, f6, f4>>, floor-normalised:                *)
(*     value = days * 86400000 + ms + f6 / 10^6 + f4 / 10^10              *)
(* with 0 <= ms < 86400000, 0 <= f6 < 10^6, 0 <= f4 < 10^4, so that the   *)
(* numeric order is the lexicographic order of the tuples.  The rounding  *)
(* of the one inexact operation, eraBaseValue + numericValue (line 97),   *)
(* is modelled as IEEE-754 round-to-nearest-even in the binade of the     *)
(* era base.                                                              *)
(***************************************************************************)
EXTENDS Integers, Sequences, FiniteSets, TLC

----------------------------------------------------------------------------
(* String primitives (String.prototype.trim / startsWith / substring).    *)

Digits == {"0", "1", "2", "3", "4", "5", "6", "7", "8", "9"}

IsDigit(c) == c \in Digits

IsSpace(c) == c = " "

DigitVal(c) ==
    CASE c = "0" -> 0 [] c = "1" -> 1 [] c = "2" -> 2 [] c = "3" -> 3
      [] c = "4" -> 4 [] c = "5" -> 5 [] c = "6" -> 6 [] c = "7" -> 7
      [] c = "8" -> 8 [] c = "9" -> 9

DigitChar(n) ==
    CASE n = 0 -> "0" [] n = 1 -> "1" [] n = 2 -> "2" [] n = 3 -> "3"
      [] n = 4 -> "4" [] n = 5 -> "5" [] n = 6 -> "6" [] n = 7 -> "7"
      [] n = 8 -> "8" [] n = 9 -> "9"

\* s.substring(i - 1, j): the characters i..j (1-based, inclusive), clipped.
SubStr(s, i, j) ==
    LET a == IF i < 1 THEN 1 ELSE i
        b == IF j > Len(s) THEN Len(s) ELSE j
    IN  IF a > b THEN <<>> ELSE SubSeq(s, a, b)

RECURSIVE TrimStart(_)
TrimStart(s) ==
    IF s # <<>> /\ IsSpace(Head(s)) THEN TrimStart(Tail(s)) ELSE s

RECURSIVE TrimEnd(_)
TrimEnd(s) ==
    IF s # <<>> /\ IsSpace(s[Len(s)]) THEN TrimEnd(SubSeq(s, 1, Len(s) - 1)) ELSE s

trim(s) == TrimEnd(TrimStart(s))

startsWith(s, prefix) ==
    Len(s) >= Len(prefix) /\ SubSeq(s, 1, Len(prefix)) = prefix

\* Number of consecutive digits of s starting at position i (regex \d+ / \d*).
RECURSIVE DigitRun(_, _)
DigitRun(s, i) ==
    IF i <= Len(s) /\ IsDigit(s[i]) THEN 1 + DigitRun(s, i + 1) ELSE 0

\* Number of consecutive white-space characters of s starting at i (regex \s*).
RECURSIVE SpaceRun(_, _)
SpaceRun(s, i) ==
    IF i <= Len(s) /\ IsSpace(s[i]) THEN 1 + SpaceRun(s, i + 1) ELSE 0

\* s.indexOf(c), 0-based; -1 when absent.
RECURSIVE IndexFrom(_, _, _)
IndexFrom(s, c, i) ==
    IF i > Len(s) THEN -1
    ELSE IF s[i] = c THEN i - 1
    ELSE IndexFrom(s, c, i + 1)

indexOf(s, c) == IndexFrom(s, c, 1)

\* s.split('.')[0] and s.split('.')[1] ("undefined" is modelled by hasFraction).
SplitYear(s) ==
    LET k == indexOf(s, ".") IN IF k = -1 THEN s ELSE SubStr(s, 1, k)

SplitHasFraction(s) == indexOf(s, ".") # -1

SplitFraction(s) ==
    LET k    == indexOf(s, ".")
        rest == SubStr(s, k + 2, Len(s))
    IN  IF k = -1 THEN <<>> ELSE SplitYear(rest)

\* str.padEnd(n, '0') and str.padStart(n, '0').
RECURSIVE padEnd(_, _)
padEnd(s, n) == IF Len(s) >= n THEN s ELSE padEnd(Append(s, "0"), n)

RECURSIVE padStart(_, _)
padStart(s, n) == IF Len(s) >= n THEN s ELSE padStart(<<"0">> \o s, n)

\* parseInt(ds, 10) of a string of digits.
RECURSIVE parseInt(_)
parseInt(ds) ==
    IF ds = <<>> THEN 0
    ELSE 10 * parseInt(SubSeq(ds, 1, Len(ds) - 1)) + DigitVal(ds[Len(ds)])

----------------------------------------------------------------------------
(* Order keys: the doubles normalizeDate returns.                         *)

\* msPerDay of ECMAScript's time values (Date.UTC counts milliseconds).
MsPerDay == 86400000

\* ERA_MULTIPLIER = 1e14 = EraMultiplierDays * MsPerDay + EraMultiplierMs.
EraMultiplierDays == 1157407

EraMultiplierMs == 35200000

Infinity == <<"Infinity">>

NaN == <<"NaN">>

IsFinite(k) == k # Infinity /\ k # NaN

\* The key days * MsPerDay + ms + f6/10^6 + f4/10^10, floor-normalised.
NormKey(days, ms, f6, f4) ==
    <<days + (ms \div MsPerDay), ms % MsPerDay, f6, f4>>

\* Numeric order of two finite keys.
KeyLess(a, b) ==
    \/ a[1] < b[1]
    \/ a[1] = b[1] /\ a[2] < b[2]
    \/ a[1] = b[1] /\ a[2] = b[2] /\ a[3] < b[3]
    \/ a[1] = b[1] /\ a[2] = b[2] /\ a[3] = b[3] /\ a[4] < b[4]

\* a < b on doubles (false when either is NaN).
NumLess(a, b) ==
    /\ a # NaN /\ b # NaN
    /\ a # Infinity
    /\ (b = Infinity \/ KeyLess(a, b))

\* CompareKeys with the operands exchanged: the comparator b - a.
CompareKeysDescending(a, b) ==
    IF a = Infinity /\ b = Infinity THEN 0
    ELSE IF NumLess(b, a) THEN -1
    ELSE IF NumLess(a, b) THEN 1
    ELSE 0

\* The sign of the comparator result a - b as Array.prototype.sort reads it:
\* Infinity - Infinity is NaN, which sort treats as +0.
CompareKeys(a, b) ==
    IF a = Infinity /\ b = Infinity THEN 0
    ELSE IF NumLess(a, b) THEN -1
    ELSE IF NumLess(b, a) THEN 1
    ELSE 0

\* Unary minus of a finite key.
Negate(k) ==
    IF k[3] = 0 /\ k[4] = 0 THEN NormKey(-k[1], -k[2], 0, 0)
    ELSE IF k[4] = 0 THEN NormKey(-k[1], -k[2] - 1, 1000000 - k[3], 0)
    ELSE NormKey(-k[1], -k[2] - 1, 999999 - k[3], 10000 - k[4])

\* The value of a string of digits, as <<days, ms>>.
RECURSIVE NatKey(_)
NatKey(ds) ==
    IF ds = <<>> THEN <<0, 0>>
    ELSE LET p == NatKey(SubSeq(ds, 1, Len(ds) - 1))
             m == p[2] * 10 + DigitVal(ds[Len(ds)])
         IN  <<p[1] * 10 + (m \div MsPerDay), m % MsPerDay>>

\* parseFloat(s): optional sign, digits, optional fraction; the longest
\* prefix that is a decimal literal, NaN when there is none.  The first ten
\* fraction digits are kept.  The steps, innermost first: the magnitude of
\* the integer digits int and the padded fraction digits fr; the sign; the
\* digit runs n1 and n2 before and after the point of the unsigned text u.
ParseFloatMagnitude(int, fr) ==
    <<int[1], int[2], parseInt(SubSeq(fr, 1, 6)), parseInt(SubSeq(fr, 7, 10))>>

ParseFloatSigned(neg, mag) == IF neg THEN Negate(mag) ELSE mag

ParseFloatParts(u, neg, n1, n2) ==
    IF n1 = 0 /\ n2 = 0 THEN NaN
    ELSE ParseFloatSigned(neg,
            ParseFloatMagnitude(NatKey(SubStr(u, 1, n1)),
                padEnd(SubStr(u, n1 + 2, n1 + 1 + (IF n2 > 10 THEN 10 ELSE n2)), 10)))

ParseFloatRuns(u, neg, n1) ==
    ParseFloatParts(u, neg, n1,
        IF n1 + 1 <= Len(u) /\ u[n1 + 1] = "." THEN DigitRun(u, n1 + 2) ELSE 0)

ParseFloatTrimmed(t) ==
    ParseFloatRuns(IF t # <<>> /\ Head(t) \in {"-", "+"} THEN Tail(t) ELSE t,
                   t # <<>> /\ Head(t) = "-",
                   DigitRun(IF t # <<>> /\ Head(t) \in {"-", "+"} THEN Tail(t) ELSE t, 1))

parseFloat(s) == ParseFloatTrimmed(TrimStart(s))

\* Days from 1970-01-01 to the proleptic Gregorian date y-m-d, m in 1..12
\* (ECMAScript MakeDay for the first of a month, plus d - 1).
DaysFromCivil(y, m, d) ==
    LET yy  == IF m <= 2 THEN y - 1 ELSE y
        era == yy \div 400
        yoe == yy - era * 400
        mp  == IF m > 2 THEN m - 3 ELSE m + 9
        doy == ((153 * mp + 2) \div 5) + d - 1
        doe == yoe * 365 + (yoe \div 4) - (yoe \div 100) + doy
    IN  era * 146097 + doe - 719468

\* Date.UTC(year, monthIndex, day, hour, minute, second): a year 0..99 means
\* 1900 + year; month, day and time fields outside their ranges carry over.
DateUTC(year, monthIndex, day, hour, minute, second) ==
    LET fullYear == IF 0 <= year /\ year <= 99 THEN 1900 + year ELSE year
        ym       == fullYear + (monthIndex \div 12)
        mn       == monthIndex % 12
        dayNum   == DaysFromCivil(ym, mn + 1, 1) + day - 1
        timeMs   == hour * 3600000 + minute * 60000 + second * 1000
    IN  NormKey(dayNum, timeMs, 0, 0)

\* 1 / ulp of a double of magnitude about |k| * 1e14 (2^46 <= 1e14 < 2^47).
UlpDen(k) ==
    LET a == IF k < 0 THEN -k ELSE k
    IN  IF a = 1 THEN 64
        ELSE IF a = 2 THEN 32
        ELSE IF a <= 5 THEN 16
        ELSE IF a <= 11 THEN 8
        ELSE IF a <= 22 THEN 4
        ELSE 2

\* Round-to-nearest-even of a fraction to a multiple of 1/den: the fraction
\* is p7 / 10^7 plus r3 / 10^10, and unit7 = 10^7 / den.
RoundIndex(p7, r3, unit7) ==
    IF ((p7 + (unit7 \div 2)) % unit7 = 0) /\ r3 = 0
       /\ ((p7 + (unit7 \div 2)) \div unit7) % 2 = 1
    THEN ((p7 + (unit7 \div 2)) \div unit7) - 1
    ELSE (p7 + (unit7 \div 2)) \div unit7

\* k * ERA_MULTIPLIER plus the whole part of v plus n / den.
EraSum(k, v, den, n) ==
    NormKey(v[1] + k * EraMultiplierDays,
            v[2] + k * EraMultiplierMs + (IF n = den THEN 1 ELSE 0),
            IF n = den THEN 0 ELSE n * (1000000 \div den), 0)

\* The double k * ERA_MULTIPLIER + v: exact for k = 0, otherwise the sum
\* rounded to the nearest multiple of the ulp, ties to the even mantissa.
AddEraBase(k, v) ==
    IF k = 0 THEN v
    ELSE EraSum(k, v, UlpDen(k),
                RoundIndex(v[3] * 10 + (v[4] \div 1000), v[4] % 1000,
                           10000000 \div UlpDen(k)))

----------------------------------------------------------------------------
(* normalizeDate, getDayKey.                                              *)

GregorianAnchor == <<"gong", "yuan", "ji", "nian">>

BcPrefixCjk == <<"gong", "yuan", "qian">>

\* Length of the prefix matched by (?:公元前|BC) with the i flag, 0 if none.
BcPrefixLen(s) ==
    IF startsWith(s, BcPrefixCjk) THEN 3
    ELSE IF Len(s) >= 2 /\ s[1] \in {"B", "b"} /\ s[2] \in {"C", "c"} THEN 2
    ELSE 0

\* /^(?:gong-yuan-qian|BC)\s*(\d+(\.\d+)?)/i : group 1, <<>> when there is
\* no match.  p is the length of the prefix, the digits start at start, n1
\* and n2 are the digit runs before and after the point.
BcMatchFraction(s, start, n1, n2) ==
    IF n2 > 0 THEN SubStr(s, start, start + n1 + n2)
    ELSE SubStr(s, start, start + n1 - 1)

BcMatchRuns(s, p, start, n1) ==
    IF p = 0 \/ n1 = 0 THEN <<>>
    ELSE BcMatchFraction(s, start, n1,
            IF start + n1 <= Len(s) /\ s[start + n1] = "."
            THEN DigitRun(s, start + n1 + 1) ELSE 0)

BcMatchAt(s, p, start) == BcMatchRuns(s, p, start, DigitRun(s, start))

BcMatchPrefix(s, p) == BcMatchAt(s, p, p + SpaceRun(s, p + 1) + 1)

BcMatch(s) == BcMatchPrefix(s, BcPrefixLen(s))

\* /^(?:gong-yuan-qian|BC)\s*(\d+)/i : group 1, <<>> when there is no match.
BcDayRuns(s, p, start, n1) ==
    IF p = 0 \/ n1 = 0 THEN <<>> ELSE SubStr(s, start, start + n1 - 1)

BcDayAt(s, p, start) == BcDayRuns(s, p, start, DigitRun(s, start))

BcDayPrefix(s, p) == BcDayAt(s, p, p + SpaceRun(s, p + 1) + 1)

BcDayMatch(s) == BcDayPrefix(s, BcPrefixLen(s))

AllDigits(s, i, j) == j <= Len(s) /\ \A p \in i..j : IsDigit(s[p])

\* /^(\d{4})-(\d{2})-(\d{2})/ matches s.
GregorianDayMatches(s) ==
    /\ Len(s) >= 10
    /\ AllDigits(s, 1, 4) /\ s[5] = "-"
    /\ AllDigits(s, 6, 7) /\ s[8] = "-"
    /\ AllDigits(s, 9, 10)

\* The optional group (?:\s+(\d{2}):(\d{2}):(\d{2}))? : position of the hour,
\* 0 when the group does not take part in the match; w blanks follow the day.
GregorianTimeAt(s, w, h) ==
    IF /\ w >= 1
       /\ Len(s) >= h + 7
       /\ AllDigits(s, h, h + 1) /\ s[h + 2] = ":"
       /\ AllDigits(s, h + 3, h + 4) /\ s[h + 5] = ":"
       /\ AllDigits(s, h + 6, h + 7)
    THEN h ELSE 0

GregorianTimeStart(s) == GregorianTimeAt(s, SpaceRun(s, 11), 11 + SpaceRun(s, 11))

\* eraOrder.findIndex(era => pred(era)), 0-based, -1 when absent.
RECURSIVE FindEraFrom(_, _, _)
FindEraFrom(eraOrder, s, i) ==
    IF i > Len(eraOrder) THEN -1
    ELSE IF startsWith(s, eraOrder[i]) THEN i - 1
    ELSE FindEraFrom(eraOrder, s, i + 1)

\* Index (0-based) of the first era of eraOrder that the string starts with.
MatchingEra(eraOrder, s) == FindEraFrom(eraOrder, s, 1)

RECURSIVE AnchorFrom(_, _)
AnchorFrom(eraOrder, i) ==
    IF i > Len(eraOrder) THEN -1
    ELSE IF eraOrder[i] = GregorianAnchor THEN i - 1
    ELSE AnchorFrom(eraOrder, i + 1)

\* anchorIndex with the anchor era taken to stand first in eraOrder.
anchorIndexFirst(eraOrder) == 0

anchorIndex(eraOrder) ==
    LET gregorianAnchorIndex == AnchorFrom(eraOrder, 1)
    IN  IF gregorianAnchorIndex = -1 THEN 0 ELSE gregorianAnchorIndex

\* Lines 91-97: the value after the era name, and the era's distance k
\* from the anchor.
EraKey(k, numericValue) ==
    AddEraBase(k, IF numericValue = NaN THEN <<0, 0, 0, 0>> ELSE numericValue)

EraValue(k, valueStr) ==
    EraKey(k, parseFloat(SplitYear(valueStr) \o <<".">>
                         \o padEnd(SplitFraction(valueStr), 10)))

\* Lines 82-102: i is the index (0-based) of the first era the text starts
\* with, -1 when there is none.
NormalizeEra(trimmedDate, eraOrder, i) ==
    IF i # -1
    THEN EraValue(i - anchorIndex(eraOrder),
                  trim(SubStr(trimmedDate, Len(eraOrder[i + 1]) + 1, Len(trimmedDate))))
    ELSE Infinity

\* Lines 60-79: h is the position of the hour, 0 when no time is written.
NormalizeGregorian(trimmedDate, h) ==
    DateUTC(parseInt(SubSeq(trimmedDate, 1, 4)),
            parseInt(SubSeq(trimmedDate, 6, 7)) - 1,
            parseInt(SubSeq(trimmedDate, 9, 10)),
            IF h = 0 THEN 0 ELSE parseInt(SubSeq(trimmedDate, h, h + 1)),
            IF h = 0 THEN 0 ELSE parseInt(SubSeq(trimmedDate, h + 3, h + 4)),
            IF h = 0 THEN 0 ELSE parseInt(SubSeq(trimmedDate, h + 6, h + 7)))

\* Lines 55-102, bcMatch being group 1 of the BC pattern.
NormalizeMatched(bcMatch, trimmedDate, eraOrder) ==
    IF bcMatch # <<>> THEN Negate(parseFloat(bcMatch))
    ELSE IF GregorianDayMatches(trimmedDate)
    THEN NormalizeGregorian(trimmedDate, GregorianTimeStart(trimmedDate))
    ELSE NormalizeEra(trimmedDate, eraOrder, MatchingEra(eraOrder, trimmedDate))

NormalizeTrimmed(trimmedDate, eraOrder) ==
    NormalizeMatched(BcMatch(trimmedDate), trimmedDate, eraOrder)

normalizeDate(dateString, eraOrder) ==
    IF dateString = <<>> THEN Infinity
    ELSE NormalizeTrimmed(trim(dateString), eraOrder)

\* Lines 157-162: the text has a blank at the 0-based index firstSpaceIndex.
DayKeyEra(trimmed, firstSpaceIndex) ==
    IF firstSpaceIndex > 0
    THEN SubStr(trimmed, 1, firstSpaceIndex) \o <<" ">>
         \o SplitYear(SubStr(trimmed, firstSpaceIndex + 2, Len(trimmed)))
    ELSE trimmed

\* Lines 153-163, bcMatch being group 1 of the BC pattern.
DayKeyMatched(bcMatch, trimmed) ==
    IF bcMatch # <<>> THEN <<"B", "C", "-">> \o bcMatch
    ELSE IF GregorianDayMatches(trimmed) THEN SubSeq(trimmed, 1, 10)
    ELSE DayKeyEra(trimmed, indexOf(trimmed, " "))

DayKeyTrimmed(trimmed) == DayKeyMatched(BcDayMatch(trimmed), trimmed)

getDayKey(dateString) ==
    IF dateString = <<>> THEN <<"N", "o", "D", "a", "t", "e">>
    ELSE DayKeyTrimmed(trim(dateString))

\* formatDisplayDate (lines 105-148).  The characters of the labels are
\* written "nian" (year), "yue" (month), "ri" (day); the label of an event
\* without a date (line 106) is NoDateLabel.
NoDateLabel == <<"wu", "ri", "qi">>

\* ` ${hour}:${minute}:${second}` (lines 116 and 137)
TimeSuffix(hour, minute, second) ==
    <<" ">> \o hour \o <<":">> \o minute \o <<":">> \o second

\* Lines 113-119: h is the position of the hour, 0 when no time is written.
FormatGregorian(trimmedDate, h) ==
    SubSeq(trimmedDate, 1, 4) \o <<"nian">> \o SubSeq(trimmedDate, 6, 7) \o <<"yue">>
    \o SubSeq(trimmedDate, 9, 10) \o <<"ri">>
    \o (IF h = 0 THEN <<>>
        ELSE TimeSuffix(SubSeq(trimmedDate, h, h + 1), SubSeq(trimmedDate, h + 3, h + 4),
                        SubSeq(trimmedDate, h + 6, h + 7)))

\* Lines 129-140
FormatEraFraction(era, year, paddedFraction) ==
    era \o <<" ">> \o year \o <<"nian">> \o SubStr(paddedFraction, 1, 2) \o <<"yue">>
    \o SubStr(paddedFraction, 3, 4) \o <<"ri">>
    \o (IF \/ SubStr(paddedFraction, 5, 6) # <<"0", "0">>
           \/ SubStr(paddedFraction, 7, 8) # <<"0", "0">>
           \/ SubStr(paddedFraction, 9, 10) # <<"0", "0">>
        THEN TimeSuffix(SubStr(paddedFraction, 5, 6), SubStr(paddedFraction, 7, 8),
                        SubStr(paddedFraction, 9, 10))
        ELSE <<>>)

\* Lines 125-143: valueStr is the text after the era name, trimmed.
FormatEra(era, valueStr) ==
    IF SplitFraction(valueStr) # <<>>
    THEN FormatEraFraction(era, SplitYear(valueStr), padEnd(SplitFraction(valueStr), 10))
    ELSE era \o <<" ">> \o SplitYear(valueStr) \o <<"nian">>

\* Lines 123-147: i is the index (0-based) of the first era the text starts
\* with, -1 when there is none.
FormatMatched(dateString, trimmedDate, eraOrder, i) ==
    IF i # -1
    THEN FormatEra(eraOrder[i + 1],
                   trim(SubStr(trimmedDate, Len(eraOrder[i + 1]) + 1, Len(trimmedDate))))
    ELSE dateString

FormatTrimmed(dateString, trimmedDate, eraOrder) ==
    IF GregorianDayMatches(trimmedDate)
    THEN FormatGregorian(trimmedDate, GregorianTimeStart(trimmedDate))
    ELSE FormatMatched(dateString, trimmedDate, eraOrder, MatchingEra(eraOrder, trimmedDate))

formatDisplayDate(dateString, eraOrder) ==
    IF dateString = <<>> THEN NoDateLabel
    ELSE FormatTrimmed(dateString, trim(dateString), eraOrder)

----------------------------------------------------------------------------
(* Layout constants (TimelineView.tsx lines 19-29).                       *)

EVENT_WIDTH == 200

EVENT_GAP == 80

PADDING_X == 20

EVENT_CARD_HEIGHT == 120

CAPSULE_HEIGHT == 40

SAME_DAY_VERTICAL_GAP == 25

SAME_DAY_CONNECTED_EVENT_GAP == 40

LANE_VERTICAL_PADDING == 20

MIN_LANE_HEIGHT == CAPSULE_HEIGHT + 2 * LANE_VERTICAL_PADDING

INDENTATION_STEP == 20

MAX_INDENTATION_LEVEL == 10

\* The null of storylineId / typeId / hoveredEventId.
null == "null"

Max(a, b) == IF a >= b THEN a ELSE b

Min(a, b) == IF a <= b THEN a ELSE b

----------------------------------------------------------------------------
(* Exact rationals <<numerator, denominator>> in lowest terms, for the    *)
(* fractional port positions and the half-pixel stack offsets.            *)

RECURSIVE Gcd(_, _)
Gcd(a, b) == IF b = 0 THEN a ELSE Gcd(b, a % b)

Abs(a) == IF a < 0 THEN -a ELSE a

Rat(n, d) ==
    LET g == Gcd(Abs(n), Abs(d))
        sgn == IF d < 0 THEN -1 ELSE 1
    IN  <<sgn * (n \div g), sgn * (d \div g)>>

RInt(n) == <<n, 1>>

RAdd(a, b) == Rat(a[1] * b[2] + b[1] * a[2], a[2] * b[2])

RSub(a, b) == Rat(a[1] * b[2] - b[1] * a[2], a[2] * b[2])

RHalf(a) == Rat(a[1], 2 * a[2])

RAbs(a) == <<Abs(a[1]), a[2]>>

RLess(a, b) == a[1] * b[2] < b[1] * a[2]

----------------------------------------------------------------------------
(* The layout useMemo (TimelineView.tsx lines 261-497).                   *)
(* An event is [id, date, storylineId, typeId]; a connection is           *)
(* [id, fromEventId, toEventId]; storylines and eventTypes are the lists  *)
(* of their ids.  Vertical positions of rectangles are held doubled       *)
(* (field y2 = 2 * y) because (laneHeight - stackHeight) / 2 may be a     *)
(* half pixel.                                                            *)

\* IsComplete with the storyline test left out.
IsCompleteNoStoryline(e) == e.typeId # null /\ e.date # <<>>

\* e.storylineId && e.typeId && e.date
IsComplete(e) == e.storylineId # null /\ e.typeId # null /\ e.date # <<>>

completeEvents(events) == SelectSeq(events, IsComplete)

\* Position at which element i is inserted into the sorted index list prev:
\* after every element that does not compare greater (stable).
RECURSIVE InsertPos(_, _, _, _)
InsertPos(prev, i, keys, p) ==
    IF p > Len(prev) THEN p
    ELSE IF CompareKeys(keys[prev[p]], keys[i]) > 0 THEN p
    ELSE InsertPos(prev, i, keys, p + 1)

\* Array.prototype.sort with the comparator a - b: the stable permutation.
RECURSIVE SortIdx(_, _)
SortIdx(keys, n) ==
    IF n = 0 THEN <<>>
    ELSE LET prev == SortIdx(keys, n - 1)
             p    == InsertPos(prev, n, keys, 1)
         IN  SubSeq(prev, 1, p - 1) \o <<n>> \o SubSeq(prev, p, Len(prev))

\* sortedEvents, each event with its order key and its day key: ce are the
\* complete events, keys their order keys, perm the sorting permutation.
SortedBy(ce, keys, perm) ==
    [j \in 1..Len(ce) |->
        [event |-> ce[perm[j]], key |-> keys[perm[j]],
         dayKey |-> getDayKey(ce[perm[j]].date)]]

SortedWithKeys(ce, keys) == SortedBy(ce, keys, SortIdx(keys, Len(ce)))

SortedComplete(ce, eraOrder) ==
    SortedWithKeys(ce, [i \in 1..Len(ce) |-> normalizeDate(ce[i].date, eraOrder)])

SortedEvents(events, eraOrder) == SortedComplete(completeEvents(events), eraOrder)

\* The keys of a Map filled from the list, in insertion order.
RECURSIVE DayKeysOf(_)
DayKeysOf(sorted) ==
    IF sorted = <<>> THEN <<>>
    ELSE LET front == DayKeysOf(SubSeq(sorted, 1, Len(sorted) - 1))
             day   == sorted[Len(sorted)].dayKey
         IN  IF \E k \in 1..Len(front) : front[k] = day THEN front
             ELSE Append(front, day)

\* eventsByDay.get(dayKey)
DayGroup(sorted, dayKey) ==
    LET SameDay(a) == a.dayKey = dayKey IN SelectSeq(sorted, SameDay)

\* Array.from(eventsByDay.keys()).sort(by the key of each day's first event)
DaysPermuted(days, perm) == [j \in 1..Len(days) |-> days[perm[j]]]

DaysByFirstEvent(sorted, days) ==
    DaysPermuted(days,
        SortIdx([i \in 1..Len(days) |-> DayGroup(sorted, days[i])[1].key], Len(days)))

SortedUniqueDays(sorted) == DaysByFirstEvent(sorted, DayKeysOf(sorted))

\* eventIndentationLevels.get(id): the index of the event in its day group.
IndentationLevel(sorted, a) ==
    LET group == DayGroup(sorted, a.dayKey)
    IN  (CHOOSE i \in 1..Len(group) : group[i].event.id = a.event.id) - 1

\* The indentation without the cap of MAX_INDENTATION_LEVEL.
XOffsetUncapped(level) == level * INDENTATION_STEP

\* Math.min(level, MAX_INDENTATION_LEVEL) * INDENTATION_STEP
XOffset(level) == Min(level, MAX_INDENTATION_LEVEL) * INDENTATION_STEP

\* The greatest element of a finite non-empty set of numbers.
MaxOf(S) == CHOOSE h \in S : \A g \in S : g <= h

\* As if a column were as wide as one event whatever the indentation.
ColumnContentWidthPlain(sorted, dayKey) == EVENT_WIDTH

\* dayColumnContentWidths.get(dayKey)
ColumnContentWidth(sorted, dayKey) ==
    MaxOf({XOffset(i - 1) + EVENT_WIDTH : i \in 1..Len(DayGroup(sorted, dayKey))}
          \cup {EVENT_WIDTH})

\* x of the column after one at x with the given content width.
NextColumnX(currentX, contentWidth) == currentX + contentWidth + EVENT_GAP

\* currentX after the first n columns.
RECURSIVE ColumnX(_, _, _)
ColumnX(sorted, days, n) ==
    IF n = 0 THEN PADDING_X
    ELSE NextColumnX(ColumnX(sorted, days, n - 1), ColumnContentWidth(sorted, days[n]))

\* dayColumnGeometries: day key -> [x, width]
DayColumnGeometries(sorted, days) ==
    [d \in {days[i] : i \in 1..Len(days)} |->
        LET i == CHOOSE k \in 1..Len(days) : days[k] = d
        IN  [x |-> ColumnX(sorted, days, i - 1),
             width |-> ColumnContentWidth(sorted, d)]]

\* canvasWidth taken to be currentX after the last column.
CanvasWidthWithGap(sorted, days) ==
    IF Len(days) > 0 THEN ColumnX(sorted, days, Len(days))
    ELSE 2 * PADDING_X

\* canvasWidth (line 308)
CanvasWidth(sorted, days) ==
    IF Len(days) > 0 THEN ColumnX(sorted, days, Len(days)) - EVENT_GAP
    ELSE 2 * PADDING_X

\* eventsByStorylineAndDay.get(storylineId): the events of the lane.
LaneEvents(sorted, storylineId) ==
    LET InLane(a) == a.event.storylineId = storylineId IN SelectSeq(sorted, InLane)

\* As if the chevron only ever expanded a card.
newSetAddOnly(prev, eventId) == prev \cup {eventId}

\* The updater of toggleEventExpansion (lines 211-219): the set with the id
\* taken out if it was in, put in if it was not.
newSet(prev, eventId) ==
    IF eventId \in prev THEN prev \ {eventId} ELSE prev \cup {eventId}

\* expandedEvents.has(id) ? EVENT_CARD_HEIGHT : CAPSULE_HEIGHT
EventHeight(id, expandedEvents) ==
    IF id \in expandedEvents THEN EVENT_CARD_HEIGHT ELSE CAPSULE_HEIGHT

\* As if only a connection from the upper event to the lower one counted.
IsConnectedForward(a, b, eventConnections) ==
    \E k \in 1..Len(eventConnections) :
        eventConnections[k].fromEventId = a /\ eventConnections[k].toEventId = b

\* eventConnections.some(conn => conn links a and b in either direction)
IsConnected(a, b, eventConnections) ==
    \E k \in 1..Len(eventConnections) :
        \/ eventConnections[k].fromEventId = a /\ eventConnections[k].toEventId = b
        \/ eventConnections[k].fromEventId = b /\ eventConnections[k].toEventId = a

\* StackGap with the plain gap left out: the next event starts where the
\* previous one ends.
StackGapNoBaseGap(isConnected) ==
    IF isConnected THEN SAME_DAY_CONNECTED_EVENT_GAP ELSE 0

\* isConnected ? SAME_DAY_CONNECTED_EVENT_GAP : SAME_DAY_VERTICAL_GAP
StackGap(isConnected) ==
    IF isConnected THEN SAME_DAY_CONNECTED_EVENT_GAP ELSE SAME_DAY_VERTICAL_GAP

\* currentColumnHeight of the lane pass (lines 329-339).
RECURSIVE ColumnHeight(_, _, _, _)
ColumnHeight(group, i, expandedEvents, eventConnections) ==
    IF i > Len(group) THEN 0
    ELSE EventHeight(group[i].event.id, expandedEvents)
         + (IF i < Len(group)
            THEN StackGap(IsConnected(group[i].event.id, group[i + 1].event.id,
                                      eventConnections))
            ELSE 0)
         + ColumnHeight(group, i + 1, expandedEvents, eventConnections)

\* stackHeight of the placement pass (lines 364-373).
RECURSIVE StackHeight(_, _, _, _)
StackHeight(group, i, expandedEvents, eventConnections) ==
    IF i > Len(group) THEN 0
    ELSE EventHeight(group[i].event.id, expandedEvents)
         + (IF i < Len(group)
            THEN StackGap(IsConnected(group[i].event.id, group[i + 1].event.id,
                                      eventConnections))
            ELSE 0)
         + StackHeight(group, i + 1, expandedEvents, eventConnections)

\* laneHeight of one storyline (lines 325-343): lane holds its events and
\* days their day keys.
LaneColumnHeights(lane, days, expandedEvents, eventConnections) ==
    {ColumnHeight(DayGroup(lane, days[k]), 1, expandedEvents, eventConnections) :
        k \in 1..Len(days)} \cup {0}

\* The lane height without the floor of MIN_LANE_HEIGHT.
LaneHeightOfNoFloor(lane, expandedEvents, eventConnections) ==
    MaxOf(LaneColumnHeights(lane, DayKeysOf(lane), expandedEvents, eventConnections))
    + 2 * LANE_VERTICAL_PADDING

\* laneHeight (line 343)
LaneHeightOf(lane, expandedEvents, eventConnections) ==
    Max(MIN_LANE_HEIGHT,
        MaxOf(LaneColumnHeights(lane, DayKeysOf(lane), expandedEvents, eventConnections))
        + 2 * LANE_VERTICAL_PADDING)

LaneHeight(sorted, storylineId, expandedEvents, eventConnections) ==
    LaneHeightOf(LaneEvents(sorted, storylineId), expandedEvents, eventConnections)

\* currentY before lane n + 1.
RECURSIVE LaneY(_, _, _, _, _)
LaneY(sorted, storylines, n, expandedEvents, eventConnections) ==
    IF n = 0 THEN 0
    ELSE LaneY(sorted, storylines, n - 1, expandedEvents, eventConnections)
         + LaneHeight(sorted, storylines[n], expandedEvents, eventConnections)

\* laneGeometries: storyline id -> [y, height]; a later duplicate id overwrites.
LaneGeometries(sorted, storylines, expandedEvents, eventConnections) ==
    [s \in {storylines[i] : i \in 1..Len(storylines)} |->
        LET i == CHOOSE k \in 1..Len(storylines) :
                    /\ storylines[k] = s
                    /\ \A m \in (k + 1)..Len(storylines) : storylines[m] # s
        IN  [y |-> LaneY(sorted, storylines, i - 1, expandedEvents, eventConnections),
             height |-> LaneHeight(sorted, s, expandedEvents, eventConnections)]]

\* totalHeight (line 347)
TotalHeightOf(currentY) == IF currentY > 0 THEN currentY ELSE MIN_LANE_HEIGHT

TotalHeight(sorted, storylines, expandedEvents, eventConnections) ==
    TotalHeightOf(LaneY(sorted, storylines, Len(storylines), expandedEvents,
                        eventConnections))

\* eventTypes.find(et => et.id === event.typeId) is defined
HasEventType(typeId, eventTypes) ==
    \E k \in 1..Len(eventTypes) : eventTypes[k] = typeId

\* 2 * currentStackY when event i of the stack is reached (lines 375-399):
\* an event whose type is not found is skipped without advancing.
RECURSIVE StackY2(_, _, _, _, _, _)
StackY2(group, i, stackStartY2, eventTypes, expandedEvents, eventConnections) ==
    IF i = 1 THEN stackStartY2
    ELSE LET prev == group[i - 1].event
             before == StackY2(group, i - 1, stackStartY2, eventTypes,
                               expandedEvents, eventConnections)
         IN  IF ~HasEventType(prev.typeId, eventTypes) THEN before
             ELSE before + 2 * (EventHeight(prev.id, expandedEvents)
                                + StackGap(IsConnected(prev.id, group[i].event.id,
                                                       eventConnections)))

\* As if a stack began under the lane's padding instead of being centred.
StackStartY2TopAligned(laneGeo, stackHeight) == 2 * (laneGeo.y + LANE_VERTICAL_PADDING)

\* 2 * stackStartY = 2 * (laneGeo.y + (laneGeo.height - stackHeight) / 2)
StackStartY2(laneGeo, stackHeight) == 2 * laneGeo.y + (laneGeo.height - stackHeight)

\* The rectangle of one event of a lane (lines 353-402).
EventRect(a, sorted, lane, laneGeo, columns, eventTypes, expandedEvents, eventConnections) ==
    LET group == DayGroup(lane, a.dayKey)
        i     == CHOOSE k \in 1..Len(group) : group[k].event.id = a.event.id
        stackHeight == StackHeight(group, 1, expandedEvents, eventConnections)
    IN  [x      |-> columns[a.dayKey].x + XOffset(IndentationLevel(sorted, a)),
         y2     |-> StackY2(group, i, StackStartY2(laneGeo, stackHeight), eventTypes,
                            expandedEvents, eventConnections),
         width  |-> EVENT_WIDTH,
         height |-> EventHeight(a.event.id, expandedEvents),
         event  |-> a.event,
         dayKey |-> a.dayKey]

\* eventLayouts: event id -> rectangle.
EventLayouts(sorted, storylines, lanes, columns, eventTypes, expandedEvents, eventConnections) ==
    LET Placed == {k \in 1..Len(sorted) :
                      /\ sorted[k].event.storylineId \in DOMAIN lanes
                      /\ HasEventType(sorted[k].event.typeId, eventTypes)}
    IN  [id \in {sorted[k].event.id : k \in Placed} |->
            LET k == CHOOSE m \in Placed : sorted[m].event.id = id
                a == sorted[k]
            IN  EventRect(a, sorted, LaneEvents(sorted, a.event.storylineId),
                          lanes[a.event.storylineId], columns, eventTypes,
                          expandedEvents, eventConnections)]

----------------------------------------------------------------------------
(* Connection routing (lines 404-494).  A side is "top", "bottom", "left" *)
(* or "right"; portUsage is held as two functions <<event id, side>> ->   *)
(* count, the totals of the first pass and the running counts of the      *)
(* second.                                                                *)

Sides == {"top", "bottom", "left", "right"}

\* Both endpoints have a layout, and a cross-day pair has both columns.
IsRoutable(conn, layouts, columns) ==
    /\ conn.fromEventId \in DOMAIN layouts
    /\ conn.toEventId \in DOMAIN layouts
    /\ \/ layouts[conn.fromEventId].dayKey = layouts[conn.toEventId].dayKey
       \/ /\ layouts[conn.fromEventId].dayKey \in DOMAIN columns
          /\ layouts[conn.toEventId].dayKey \in DOMAIN columns

\* First pass (lines 418-437): the sides whose totals the connection raises,
\* <<side at the source, side at the target>>.
TotalSides(from, to, columns) ==
    IF from.dayKey = to.dayKey
    THEN IF from.y2 < to.y2 THEN <<"bottom", "top">> ELSE <<"top", "bottom">>
    ELSE IF columns[from.dayKey].x < columns[to.dayKey].x
         THEN <<"right", "left">> ELSE <<"left", "right">>

\* As if every connection between two days ran from the left column to the
\* right one.
RouteSidesForward(from, to, columns) ==
    IF from.dayKey = to.dayKey
    THEN IF from.y2 < to.y2 THEN <<"bottom", "top">> ELSE <<"top", "bottom">>
    ELSE <<"right", "left">>

\* Second pass (lines 453-457 and 479-485): startPort / endPort.
RouteSides(from, to, columns) ==
    IF from.dayKey = to.dayKey
    THEN LET isFromOnTop == from.y2 < to.y2
         IN  <<IF isFromOnTop THEN "bottom" ELSE "top",
               IF isFromOnTop THEN "top" ELSE "bottom">>
    ELSE LET isForward == columns[from.dayKey].x < columns[to.dayKey].x
         IN  <<IF isForward THEN "right" ELSE "left",
               IF isForward THEN "left" ELSE "right">>

ZeroUsage(layouts) == [p \in (DOMAIN layouts) \X Sides |-> 0]

Bump(usage, id, side) == [usage EXCEPT ![<<id, side>>] = @ + 1]

\* PortTotals with a connection whose target has no layout still counted
\* on the right side of its source.
RECURSIVE PortTotalsCountingDangling(_, _, _, _)
PortTotalsCountingDangling(eventConnections, n, layouts, columns) ==
    IF n = 0 THEN ZeroUsage(layouts)
    ELSE IF IsRoutable(eventConnections[n], layouts, columns)
    THEN Bump(Bump(PortTotalsCountingDangling(eventConnections, n - 1, layouts, columns),
                   eventConnections[n].fromEventId,
                   TotalSides(layouts[eventConnections[n].fromEventId],
                              layouts[eventConnections[n].toEventId], columns)[1]),
              eventConnections[n].toEventId,
              TotalSides(layouts[eventConnections[n].fromEventId],
                         layouts[eventConnections[n].toEventId], columns)[2])
    ELSE IF eventConnections[n].fromEventId \in DOMAIN layouts
    THEN Bump(PortTotalsCountingDangling(eventConnections, n - 1, layouts, columns),
              eventConnections[n].fromEventId, "right")
    ELSE PortTotalsCountingDangling(eventConnections, n - 1, layouts, columns)

\* portUsage totals after the first n connections of the first pass.
RECURSIVE PortTotals(_, _, _, _)
PortTotals(eventConnections, n, layouts, columns) ==
    IF n = 0 THEN ZeroUsage(layouts)
    ELSE LET before == PortTotals(eventConnections, n - 1, layouts, columns)
             conn   == eventConnections[n]
         IN  IF ~IsRoutable(conn, layouts, columns) THEN before
             ELSE LET sides == TotalSides(layouts[conn.fromEventId],
                                          layouts[conn.toEventId], columns)
                  IN  Bump(Bump(before, conn.fromEventId, sides[1]),
                           conn.toEventId, sides[2])

\* PortFraction without the margin: usage / total.
PortFractionNoMargin(used, total) == Rat(used, total)

\* usage / (total + 1)
PortFraction(used, total) == Rat(used, total + 1)

\* rect.x + rect.width * fraction, and rect.y + rect.height * fraction
AlongWidth(rect, fraction) ==
    RAdd(RInt(rect.x), Rat(rect.width * fraction[1], fraction[2]))

AlongHeight(rect, fraction) ==
    RAdd(Rat(rect.y2, 2), Rat(rect.height * fraction[1], fraction[2]))

\* startX, startY of a connection leaving `from` by the given side.
PathStart(sameDay, side, from, fraction) ==
    IF sameDay
    THEN <<AlongWidth(from, fraction),
           IF side = "bottom" THEN Rat(from.y2 + 2 * from.height, 2)
           ELSE Rat(from.y2, 2)>>
    ELSE <<IF side = "right" THEN RInt(from.x + from.width) ELSE RInt(from.x),
           AlongHeight(from, fraction)>>

\* endX, endY of a connection that left its source by the given side.
PathEnd(sameDay, side, to, fraction) ==
    IF sameDay
    THEN <<AlongWidth(to, fraction),
           IF side = "bottom" THEN Rat(to.y2, 2)
           ELSE Rat(to.y2 + 2 * to.height, 2)>>
    ELSE <<IF side = "right" THEN RInt(to.x) ELSE RInt(to.x + to.width),
           AlongHeight(to, fraction)>>

\* verticalOffset and controlPointOffset
VerticalOffset(start, end) == RHalf(RAbs(RSub(end[2], start[2])))

ControlPointOffset(start, end) == RHalf(RSub(end[1], start[1]))

\* The cubic of a connection: start, two control points, end.
PathCurve(sameDay, side, start, end) ==
    IF sameDay
    THEN <<start,
           <<start[1], IF side = "bottom" THEN RAdd(start[2], VerticalOffset(start, end))
                       ELSE RSub(start[2], VerticalOffset(start, end))>>,
           <<end[1], IF side = "bottom" THEN RSub(end[2], VerticalOffset(start, end))
                     ELSE RAdd(end[2], VerticalOffset(start, end))>>,
           end>>
    ELSE <<start,
           <<RAdd(start[1], ControlPointOffset(start, end)), start[2]>>,
           <<RSub(end[1], ControlPointOffset(start, end)), end[2]>>,
           end>>

PathRecord(conn, sameDay, sides, start, end, fromUsed, fromTotal, toUsed, toTotal) ==
    [id |-> conn.id, from |-> start, to |-> end,
     path |-> PathCurve(sameDay, sides[1], start, end),
     fromId |-> conn.fromEventId, toId |-> conn.toEventId,
     fromSide |-> sides[1], toSide |-> sides[2],
     fromUsed |-> fromUsed, fromTotal |-> fromTotal,
     toUsed |-> toUsed, toTotal |-> toTotal]

\* One entry of connectionPaths: the two endpoints, the two control points
\* of the cubic, and the port bookkeeping of the entry.
PathEntry(conn, from, to, sides, fromUsed, fromTotal, toUsed, toTotal) ==
    PathRecord(conn, from.dayKey = to.dayKey, sides,
               PathStart(from.dayKey = to.dayKey, sides[1], from,
                         PortFraction(fromUsed, fromTotal)),
               PathEnd(from.dayKey = to.dayKey, sides[1], to,
                       PortFraction(toUsed, toTotal)),
               fromUsed, fromTotal, toUsed, toTotal)

\* One connection of the second pass: u1 is portUsage after the source's
\* count was raised, u2 after the target's was raised as well.  A same-day
\* connection raises both counts before it reads either (lines 459-465); a
\* cross-day one reads the source's count before it raises the target's
\* (lines 482-487).
RouteAppend(before, conn, from, to, sides, totals, u1, u2) ==
    [usage |-> u2,
     paths |-> Append(before.paths,
         PathEntry(conn, from, to, sides,
                   IF from.dayKey = to.dayKey
                   THEN u2[<<conn.fromEventId, sides[1]>>]
                   ELSE u1[<<conn.fromEventId, sides[1]>>],
                   totals[<<conn.fromEventId, sides[1]>>],
                   u2[<<conn.toEventId, sides[2]>>],
                   totals[<<conn.toEventId, sides[2]>>]))]

RouteCounted(before, conn, from, to, sides, totals, u1) ==
    RouteAppend(before, conn, from, to, sides, totals, u1,
                Bump(u1, conn.toEventId, sides[2]))

RouteSided(before, conn, from, to, sides, totals) ==
    RouteCounted(before, conn, from, to, sides, totals,
                 Bump(before.usage, conn.fromEventId, sides[1]))

RouteStep(before, conn, layouts, columns, totals) ==
    IF ~IsRoutable(conn, layouts, columns) THEN before
    ELSE RouteSided(before, conn, layouts[conn.fromEventId], layouts[conn.toEventId],
                    RouteSides(layouts[conn.fromEventId], layouts[conn.toEventId],
                               columns),
                    totals)

\* The second pass over the first n connections: [usage, paths], paths the
\* entries in routing order.
RECURSIVE RoutePass(_, _, _, _, _)
RoutePass(eventConnections, n, layouts, columns, totals) ==
    IF n = 0 THEN [usage |-> ZeroUsage(layouts), paths |-> <<>>]
    ELSE RouteStep(RoutePass(eventConnections, n - 1, layouts, columns, totals),
                   eventConnections[n], layouts, columns, totals)

\* connectionPaths: connection id -> entry (a later entry of the same id
\* overwrites an earlier one).
ConnectionPaths(paths) ==
    [id \in {paths[k].id : k \in 1..Len(paths)} |->
        LET k == CHOOSE m \in 1..Len(paths) :
                    /\ paths[m].id = id
                    /\ \A j \in (m + 1)..Len(paths) : paths[j].id # id
        IN  paths[k]]

\* Everything the layout useMemo returns, for one snapshot of its inputs;
\* the steps of the memo in the order of the source.
LayoutResult(sorted, days, columns, lanes, layouts, totals, routed, canvasWidth, totalHeight) ==
    [eventLayouts        |-> layouts,
     canvasWidth         |-> canvasWidth,
     totalHeight         |-> totalHeight,
     laneGeometries      |-> lanes,
     sortedUniqueDays    |-> days,
     connectionPaths     |-> ConnectionPaths(routed.paths),
     dayColumnGeometries |-> columns,
     sortedEvents        |-> sorted,
     portTotals          |-> totals,
     portUsage           |-> routed.usage]

LayoutPorts(sorted, days, columns, lanes, layouts, totals, eventConnections, canvasWidth, totalHeight) ==
    LayoutResult(sorted, days, columns, lanes, layouts, totals,
                 RoutePass(eventConnections, Len(eventConnections), layouts, columns,
                           totals),
                 canvasWidth, totalHeight)

LayoutPlaced(sorted, days, columns, lanes, layouts, eventConnections, canvasWidth, totalHeight) ==
    LayoutPorts(sorted, days, columns, lanes, layouts,
                PortTotals(eventConnections, Len(eventConnections), layouts, columns),
                eventConnections, canvasWidth, totalHeight)

LayoutLanes(sorted, days, columns, lanes, storylines, eventTypes, expandedEvents, eventConnections) ==
    LayoutPlaced(sorted, days, columns, lanes,
                 EventLayouts(sorted, storylines, lanes, columns, eventTypes,
                              expandedEvents, eventConnections),
                 eventConnections, CanvasWidth(sorted, days),
                 TotalHeight(sorted, storylines, expandedEvents, eventConnections))

LayoutDays(sorted, days, storylines, eventTypes, expandedEvents, eventConnections) ==
    LayoutLanes(sorted, days, DayColumnGeometries(sorted, days),
                LaneGeometries(sorted, storylines, expandedEvents, eventConnections),
                storylines, eventTypes, expandedEvents, eventConnections)

LayoutSorted(sorted, storylines, eventTypes, expandedEvents, eventConnections) ==
    LayoutDays(sorted, SortedUniqueDays(sorted), storylines, eventTypes,
               expandedEvents, eventConnections)

Layout(events, storylines, eventTypes, eraOrder, expandedEvents, eventConnections) ==
    LayoutSorted(SortedEvents(events, eraOrder), storylines, eventTypes,
                 expandedEvents, eventConnections)

\* As if the memo sorted the array it was given (events.sort in place of
\* lines 262-263).
InputsSortedInPlace(events, storylines, eraOrder, expandedEvents, eventConnections) ==
    [events |-> SortedComplete(events, eraOrder), storylines |-> storylines,
     expandedEvents |-> expandedEvents, eventConnections |-> eventConnections]

\* The arrays and the set the memo was given, as they are when it has
\* returned.  events.filter (line 262) builds a new array and sort
\* (line 263) sorts that one in place; storylines, expandedEvents and
\* eventConnections are only read (for...of, has, some, get).
InputsAfterLayout(events, storylines, eraOrder, expandedEvents, eventConnections) ==
    [events |-> events, storylines |-> storylines,
     expandedEvents |-> expandedEvents, eventConnections |-> eventConnections]

----------------------------------------------------------------------------
(* The highlight useMemo (lines 562-612): the connected component of the  *)
(* hovered event, and a colour index for each connection inside it.       *)

\* HIGHLIGHT_COLORS.length (lines 32-40)
HighlightColorCount == 7

\* Neighbor following connections from source to target only.
NeighborForward(conn, currentEventId) ==
    IF conn.fromEventId = currentEventId THEN conn.toEventId ELSE null

\* neighborId of the inner loop (lines 576-581)
Neighbor(conn, currentEventId) ==
    IF conn.fromEventId = currentEventId THEN conn.toEventId
    ELSE IF conn.toEventId = currentEventId THEN conn.fromEventId
    ELSE null

\* if (neighborId && !visited.has(neighborId)) { visited.add; queue.push }
ScanStep(scanned, neighborId) ==
    IF neighborId # null /\ neighborId \notin scanned.visited
    THEN [queue |-> Append(scanned.queue, neighborId),
          visited |-> scanned.visited \cup {neighborId}]
    ELSE scanned

\* The inner loop over the first n connections, for one dequeued event.
RECURSIVE Scan(_, _, _, _, _)
Scan(eventConnections, n, currentEventId, queue, visited) ==
    IF n = 0 THEN [queue |-> queue, visited |-> visited]
    ELSE ScanStep(Scan(eventConnections, n - 1, currentEventId, queue, visited),
                  Neighbor(eventConnections[n], currentEventId))

\* The while loop (lines 571-588): [componentEvents, dequeued], dequeued
\* the number of times the loop body ran.
RECURSIVE Bfs(_, _, _, _, _)
BfsNext(scanned, componentEvents, dequeued, eventConnections) ==
    Bfs(scanned.queue, scanned.visited, componentEvents, dequeued, eventConnections)

Bfs(queue, visited, componentEvents, dequeued, eventConnections) ==
    IF queue = <<>> THEN [componentEvents |-> componentEvents, dequeued |-> dequeued]
    ELSE BfsNext(Scan(eventConnections, Len(eventConnections), Head(queue), Tail(queue),
                      visited),
                 componentEvents \cup {Head(queue)}, dequeued + 1, eventConnections)

Traversal(hoveredEventId, eventConnections) ==
    Bfs(<<hoveredEventId>>, {hoveredEventId}, {}, 0, eventConnections)

\* componentConnections (lines 590-592)
ComponentConnections(componentEvents, eventConnections) ==
    SelectSeq(eventConnections, LAMBDA conn :
        conn.fromEventId \in componentEvents /\ conn.toEventId \in componentEvents)

\* nodeColorUsage.get(id), the empty set before the first use
UsageOf(nodeColorUsage, id) ==
    IF id \in DOMAIN nodeColorUsage THEN nodeColorUsage[id] ELSE {}

\* colorIndex = 0; while (usedColorIndices.has(colorIndex)) colorIndex++
RECURSIVE FirstFree(_, _)
FirstFree(usedColorIndices, colorIndex) ==
    IF colorIndex \in usedColorIndices THEN FirstFree(usedColorIndices, colorIndex + 1)
    ELSE colorIndex

\* The first free index taken as it is, beyond the palette too.
FinalColorIndexNoWrap(usedColorIndices) == FirstFree(usedColorIndices, 0)

\* finalColorIndex of a connection whose endpoints have used these indices
FinalColorIndex(usedColorIndices) == FirstFree(usedColorIndices, 0) % HighlightColorCount

\* The body of the colouring loop once finalColorIndex is known.
ColourSet(coloured, conn, finalColorIndex) ==
    [info  |-> (conn.id :> finalColorIndex) @@ coloured.info,
     usage |-> [id \in DOMAIN coloured.usage \cup {conn.fromEventId, conn.toEventId} |->
                   IF id \in {conn.fromEventId, conn.toEventId}
                   THEN UsageOf(coloured.usage, id) \cup {finalColorIndex}
                   ELSE coloured.usage[id]]]

\* ColourStep looking only at the indices used at the source.
ColourStepSourceOnly(coloured, conn) ==
    ColourSet(coloured, conn, FinalColorIndex(UsageOf(coloured.usage, conn.fromEventId)))

ColourStep(coloured, conn) ==
    ColourSet(coloured, conn,
              FinalColorIndex(UsageOf(coloured.usage, conn.fromEventId)
                              \cup UsageOf(coloured.usage, conn.toEventId)))

\* The colouring loop over the first n component connections (lines
\* 597-609): [info: connection id -> index, usage: nodeColorUsage].
RECURSIVE Colouring(_, _)
Colouring(componentConnections, n) ==
    IF n = 0 THEN [info |-> <<>>, usage |-> <<>>]
    ELSE ColourStep(Colouring(componentConnections, n - 1), componentConnections[n])

ColouringOf(componentConnections) ==
    Colouring(componentConnections, Len(componentConnections)).info

\* What the highlight useMemo returns.
Highlight(hoveredEventId, eventConnections) ==
    IF hoveredEventId = null
    THEN [highlightedEvents |-> {}, highlightedConnectionInfo |-> <<>>, dequeued |-> 0]
    ELSE [highlightedEvents |-> Traversal(hoveredEventId, eventConnections).componentEvents,
          highlightedConnectionInfo |->
              ColouringOf(ComponentConnections(
                  Traversal(hoveredEventId, eventConnections).componentEvents,
                  eventConnections)),
          dequeued |-> Traversal(hoveredEventId, eventConnections).dequeued]

----------------------------------------------------------------------------
(* getDropTarget (TimelineView.tsx lines 514-560).  The pointer position  *)
(* is <<x, y2>>, y2 being twice the y coordinate.  What the environment   *)
(* decides is passed in env: today's date (UTC) as new Date() gives it,   *)
(* whether the engine's Date parser carries a day of the month beyond the *)
(* month's end into the next month or rejects it (the language leaves     *)
(* texts outside the ISO format to the implementation), and the local     *)
(* time zone.                                                             *)

IsLeapYear(y) == (y % 4 = 0 /\ y % 100 # 0) \/ y % 400 = 0

DaysInMonth(y, m) ==
    IF m = 2 THEN (IF IsLeapYear(y) THEN 29 ELSE 28)
    ELSE IF m \in {4, 6, 9, 11} THEN 30 ELSE 31

\* The calendar day after <<y, m, d>>.
NextDay(date) ==
    IF date[3] < DaysInMonth(date[1], date[2]) THEN <<date[1], date[2], date[3] + 1>>
    ELSE IF date[2] < 12 THEN <<date[1], date[2] + 1, 1>>
    ELSE <<date[1] + 1, 1, 1>>

\* The time value of a text the Date parser does not accept.
InvalidDate == <<>>

\* new Date('YYYY-MM-DD') (line 548): midnight UTC of the day as
\* <<y, m, d>>.  A month outside 01..12 or a day outside 01..31 gives an
\* invalid date; a day up to 31 beyond the end of the month is carried
\* into the next month by some engines and rejected by others.
ParseIsoDay(y, m, d, engine) ==
    IF m \notin 1..12 \/ d \notin 1..31 THEN InvalidDate
    ELSE IF d <= DaysInMonth(y, m) THEN <<y, m, d>>
    ELSE IF engine = "carries" THEN <<y, m + 1, d - DaysInMonth(y, m)>>
    ELSE InvalidDate

\* The decimal digits of n in at least width places.
RECURSIVE NumberText(_, _)
NumberText(n, width) ==
    IF n < 10 /\ width <= 1 THEN <<DigitChar(n)>>
    ELSE Append(NumberText(n \div 10, width - 1), DigitChar(n % 10))

\* toISOString().split('T')[0] of midnight UTC of <<y, m, d>>: years beyond
\* 9999 are written with a sign and six digits.
IsoDay(date) ==
    (IF date[1] > 9999 THEN <<"+">> \o NumberText(date[1], 6) ELSE NumberText(date[1], 4))
    \o <<"-">> \o NumberText(date[2], 2) \o <<"-">> \o NumberText(date[3], 2)

Midnight == <<" ", "0", "0", ":", "0", "0", ":", "0", "0">>

\* The local days that are one hour short in the time zones of the model:
\* in Central European Time the clocks go forward on 29 March 2020.
SpringForward(zone, date) == zone = "CET" /\ date = <<2020, 3, 29>>

\* lastDate.setDate(lastDate.getDate() + 1) (line 549) moves the local
\* calendar day: a day one hour short leaves the result at 23:00 UTC of
\* the same UTC day.
SetNextLocalDay(date, zone) == IF SpringForward(zone, date) THEN date ELSE NextDay(date)

\* The exception of Date.prototype.toISOString on an invalid date, where a
\* date text is expected.
RangeError == <<"RangeError">>

\* Lines 548-550: lastDate is the parsed date.
ExtrapolatedDate(lastDate, zone) ==
    IF lastDate = InvalidDate THEN RangeError
    ELSE IsoDay(SetNextLocalDay(lastDate, zone)) \o Midnight

\* Lines 543-556: no column is right of the pointer.
DateBeyondColumns(sorted, days, env) ==
    IF days # <<>>
    THEN (LET lastDateStr == DayGroup(sorted, days[Len(days)])[1].event.date
          IN  IF GregorianDayMatches(lastDateStr)
              THEN ExtrapolatedDate(ParseIsoDay(parseInt(SubSeq(lastDateStr, 1, 4)),
                                                parseInt(SubSeq(lastDateStr, 6, 7)),
                                                parseInt(SubSeq(lastDateStr, 9, 10)),
                                                env.engine), env.zone)
              ELSE lastDateStr)
    ELSE env.today \o Midnight

\* The loop of lines 531-540 from column i on: 0 when no column is found.
RECURSIVE FirstColumnAt(_, _, _, _)
FirstColumnAt(xPos, days, columns, i) ==
    IF i > Len(days) THEN 0
    ELSE IF 2 * xPos < 2 * (columns[days[i]].x + columns[days[i]].width) + EVENT_GAP THEN i
    ELSE FirstColumnAt(xPos, days, columns, i + 1)

\* targetDate (lines 529-557): i is the column found, 0 when none is.
TargetDate(sorted, days, i, env) ==
    IF i # 0 THEN DayGroup(sorted, days[i])[1].event.date
    ELSE DateBeyondColumns(sorted, days, env)

\* storylines.find of lines 522-525 from storyline i on: null when the
\* pointer is in no lane.
RECURSIVE TargetStoryline(_, _, _, _)
TargetStoryline(yPos2, storylines, lanes, i) ==
    IF i > Len(storylines) THEN null
    ELSE IF /\ storylines[i] \in DOMAIN lanes
            /\ yPos2 >= 2 * lanes[storylines[i]].y
            /\ yPos2 < 2 * (lanes[storylines[i]].y + lanes[storylines[i]].height)
         THEN storylines[i]
    ELSE TargetStoryline(yPos2, storylines, lanes, i + 1)

\* The null of a drop target, which is [storylineId, date] otherwise.
nullTarget == <<>>

\* What a call of getDropTarget gives when it throws.
Thrown == [exception |-> RangeError]

\* The call threw instead of returning.
Throws(result) == "exception" \in DOMAIN result

\* Line 559, or the exception of line 550 passed on.
DropTargetAt(targetStoryline, targetDate) ==
    IF targetStoryline = null THEN nullTarget
    ELSE IF targetDate = RangeError THEN Thrown
    ELSE [storylineId |-> targetStoryline, date |-> targetDate]

\* getDropTarget(xPos, yPos) on the layout l and the storylines of the
\* render: a target, nullTarget, or Thrown.
getDropTarget(xPos, yPos2, storylines, l, env) ==
    IF DOMAIN l.laneGeometries = {}
    THEN (IF Len(storylines) > 0
          THEN [storylineId |-> storylines[1], date |-> env.today \o Midnight]
          ELSE nullTarget)
    ELSE DropTargetAt(TargetStoryline(yPos2, storylines, l.laneGeometries, 1),
                      TargetDate(l.sortedEvents, l.sortedUniqueDays,
                                 FirstColumnAt(xPos, l.sortedUniqueDays,
                                               l.dayColumnGeometries, 1), env))

----------------------------------------------------------------------------
(* The event form (EventFormModal.tsx lines 249-276).                     *)

\* p(str, len) = (str || '').padStart(len, '0')
p(str, len) == padStart(str, len)

\* finalDate of handleSubmit (lines 252-266), trimmed.
FinalDate(selectedEra, dateParts, showTime) ==
    IF selectedEra = GregorianAnchor
    THEN trim(p(dateParts.year, 4) \o <<"-">> \o p(dateParts.month, 2) \o <<"-">>
              \o p(dateParts.day, 2)
              \o (IF showTime /\ (dateParts.hour # <<>> \/ dateParts.minute # <<>>
                                  \/ dateParts.second # <<>>)
                  THEN <<" ">> \o p(dateParts.hour, 2) \o <<":">> \o p(dateParts.minute, 2)
                       \o <<":">> \o p(dateParts.second, 2)
                  ELSE <<>>))
    ELSE LET year     == IF dateParts.year = <<>> THEN <<"0">> ELSE dateParts.year
             fraction == p(dateParts.month, 2) \o p(dateParts.day, 2)
                         \o (IF showTime THEN p(dateParts.hour, 2) ELSE <<"0", "0">>)
                         \o (IF showTime THEN p(dateParts.minute, 2) ELSE <<"0", "0">>)
                         \o (IF showTime THEN p(dateParts.second, 2) ELSE <<"0", "0">>)
         IN  trim(selectedEra \o <<" ">> \o year \o <<".">> \o fraction)

----------------------------------------------------------------------------
(* The event form in edit mode (EventFormModal.tsx lines 46-139, 249-324). *)
(* The modal is mounted when it opens (App.tsx line 282), so the form      *)
(* starts from the initial values of its useState calls.                   *)

\* The date parts of an empty form (line 52).
NoParts == [year |-> <<>>, month |-> <<>>, day |-> <<>>, hour |-> <<>>, minute |-> <<>>, second |-> <<>>]

\* The form's date state at mount (lines 51-53).
InitialFormState ==
    [selectedEra |-> GregorianAnchor, dateParts |-> NoParts, showTime |-> FALSE]

\* Lines 96-107: the date text starts with era; valueStr is the text after
\* the era name, trimmed, and paddedFraction its fraction padded to ten.
ParsedEraDate(era, valueStr, paddedFraction) ==
    [selectedEra |-> era,
     dateParts |-> [year   |-> SplitYear(valueStr),
                    month  |-> SubStr(paddedFraction, 1, 2),
                    day    |-> SubStr(paddedFraction, 3, 4),
                    hour   |-> SubStr(paddedFraction, 5, 6),
                    minute |-> SubStr(paddedFraction, 7, 8),
                    second |-> SubStr(paddedFraction, 9, 10)],
     showTime |-> SubStr(paddedFraction, 5, Len(paddedFraction))
                  # <<"0", "0", "0", "0", "0", "0">>]

\* Lines 116-125: h is the position of the hour, 0 when no time is written.
ParsedGregorianDate(dateStr, h) ==
    [selectedEra |-> GregorianAnchor,
     dateParts |-> [year   |-> SubSeq(dateStr, 1, 4),
                    month  |-> SubSeq(dateStr, 6, 7),
                    day    |-> SubSeq(dateStr, 9, 10),
                    hour   |-> IF h = 0 THEN <<"0", "0">> ELSE SubSeq(dateStr, h, h + 1),
                    minute |-> IF h = 0 THEN <<"0", "0">> ELSE SubSeq(dateStr, h + 3, h + 4),
                    second |-> IF h = 0 THEN <<"0", "0">> ELSE SubSeq(dateStr, h + 6, h + 7)],
     showTime |-> h # 0]

\* Lines 129-137: the form of an event without a date, today being
\* YYYY-MM-DD.
TodayFormState(today) ==
    [selectedEra |-> GregorianAnchor,
     dateParts |-> [NoParts EXCEPT !.year = SubSeq(today, 1, 4),
                                   !.month = SubSeq(today, 6, 7),
                                   !.day = SubSeq(today, 9, 10)],
     showTime |-> FALSE]

\* Lines 89-127: i is the index (0-based) of the first era the date text
\* starts with, -1 when there is none.  A text that is neither of an era
\* nor Gregorian leaves the form as it was mounted.
ParsedDate(dateStr, eraOrder, i) ==
    IF i # -1
    THEN ParsedEraDate(eraOrder[i + 1],
                       trim(SubStr(dateStr, Len(eraOrder[i + 1]) + 1, Len(dateStr))),
                       padEnd(SplitFraction(trim(SubStr(dateStr, Len(eraOrder[i + 1]) + 1,
                                                        Len(dateStr)))), 10))
    ELSE IF GregorianDayMatches(dateStr)
    THEN ParsedGregorianDate(dateStr, GregorianTimeStart(dateStr))
    ELSE InitialFormState

\* The date-parsing effect (lines 86-139): the form's date state for
\* eventToEdit.date.
EditFormState(dateStr, eraOrder, today) ==
    IF dateStr = <<>> THEN TodayFormState(today)
    ELSE ParsedDate(dateStr, eraOrder, MatchingEra(eraOrder, dateStr))

\* eventToEdit?.storylineId ?? (data.storylines[0]?.id ?? null) (lines
\* 55-56), for the list of storylines or of event types.
FormDefault(id, list) == IF id # null THEN id ELSE IF list # <<>> THEN list[1] ELSE null

\* The event saved by handleSubmit in edit mode (lines 252-271) with the
\* form as the effects filled it: form is the form's date state.
SavedEvent(event, form, storylineList, eventTypeList) ==
    [event EXCEPT !.date = FinalDate(form.selectedEra, form.dateParts, form.showTime),
                  !.storylineId = FormDefault(event.storylineId, storylineList),
                  !.typeId = FormDefault(event.typeId, eventTypeList)]

\* The connection list saved by handleSubmit in edit mode (lines 279-321):
\* the connections of the event, unchanged, moved behind the others.
SavedConnections(connections, eventId) ==
    LET IsRelated(c) == c.fromEventId = eventId \/ c.toEventId = eventId
        IsUnrelated(c) == ~IsRelated(c)
    IN  SelectSeq(connections, IsUnrelated) \o SelectSeq(connections, IsRelated)

----------------------------------------------------------------------------
(* App.tsx: the script list, and the events the search box lets through.  *)

\* The data of the script made by handleCreateScript (App.tsx lines 157-166).
NewScriptData ==
    [storylines |-> <<>>, eventTypes |-> <<>>, events |-> <<>>,
     eventConnections |-> <<>>, eraOrder |-> <<GregorianAnchor>>]

\* scripts.findIndex(s => s.id === idToDelete) (App.tsx line 173), 0-based.
scriptIndex(list, idToDelete) ==
    IF \E k \in 1..Len(list) : list[k].id = idToDelete
    THEN (CHOOSE k \in 1..Len(list) :
             /\ list[k].id = idToDelete
             /\ \A j \in 1..(k - 1) : list[j].id # idToDelete) - 1
    ELSE -1

\* newScripts (App.tsx line 176)
newScripts(list, idToDelete) == SelectSeq(list, LAMBDA s : s.id # idToDelete)

\* newActiveIndex as if the first script were always chosen.
newActiveIndexFirst(index, remaining) == 0

\* newActiveIndex (App.tsx line 182)
newActiveIndex(index, remaining) == Min(index, Len(remaining) - 1)

\* The id handleDeleteScript leaves active (App.tsx lines 179-187).
ActiveAfterDelete(list, active, idToDelete) ==
    IF active = idToDelete
    THEN IF Len(newScripts(list, idToDelete)) > 0
         THEN newScripts(list, idToDelete)[
                  newActiveIndex(scriptIndex(list, idToDelete),
                                 newScripts(list, idToDelete)) + 1].id
         ELSE null
    ELSE active

toLowerCase(s) ==
    [i \in 1..Len(s) |-> IF s[i] = "A" THEN "a" ELSE IF s[i] = "B" THEN "b" ELSE s[i]]

\* haystack.includes(needle)
includes(haystack, needle) ==
    \E i \in 1..(Len(haystack) - Len(needle) + 1) :
        SubSeq(haystack, i, i + Len(needle) - 1) = needle

\* filteredEvents (App.tsx lines 110-122)
filteredEvents(events, searchTerm) ==
    IF searchTerm = <<>> THEN events
    ELSE SelectSeq(events, LAMBDA event :
            \/ includes(toLowerCase(event.title), toLowerCase(searchTerm))
            \/ includes(toLowerCase(event.description), toLowerCase(searchTerm)))

----------------------------------------------------------------------------
(* State: the active script's data (App.tsx createSetter), the search     *)
(* term of App, the TimelineView's own UI state, and the values of its    *)
(* layout and highlight useMemos at the last render.                      *)

VARIABLES events, storylines, eventTypes, eraOrder, eventConnections, expandedEvents, hoveredEventId, searchTerm, eventSerial, connSerial, layout, highlight, connectingState, listeners, editingEvent, isEventModalOpen, storylineSerial, typeSerial, scripts, activeScriptId, scriptSerial

vars == <<events, storylines, eventTypes, eraOrder, eventConnections, expandedEvents, hoveredEventId, searchTerm, eventSerial, connSerial, layout, highlight, connectingState, listeners, editingEvent, isEventModalOpen, storylineSerial, typeSerial, scripts, activeScriptId, scriptSerial>>

\* Fresh ids: `e-${Date.now()}`, `conn-${Date.now()}`, `sl-${Date.now()}` and
\* `et-${Date.now()}` never repeat; the n-th created event, connection,
\* storyline and event type are named by their serial number.
StorylineIdSeq == <<"s1", "s2", "s3", "s4">>

EventTypeIdSeq == <<"t1", "t2", "t3">>

EventIdSeq == <<"e1", "e2", "e3", "e4", "e5", "e6", "e7", "e8", "e9", "e10", "e11", "e12",
               "e13", "e14">>

ConnIdSeq == <<"c1", "c2", "c3", "c4", "c5", "c6", "c7", "c8", "c9", "c10">>

StorylineIds == {storylines[i] : i \in 1..Len(storylines)}

EventTypeIds == {eventTypes[i] : i \in 1..Len(eventTypes)}

EventIds == {events[i].id : i \in 1..Len(events)}

EraNames == {eraOrder[i] : i \in 1..Len(eraOrder)}

\* `script-${Date.now()}`: the n-th script is named by its serial number.
ScriptIdSeq == <<"script1", "script2", "script3", "script4", "script5", "script6">>

ScriptIds == {scripts[k].id : k \in 1..Len(scripts)}

\* activeScript.data (App.tsx lines 93, 239-249): the data of the active
\* script are the variables the timeline is given.  In the variable scripts
\* the entry of the active script holds the data of an empty script
\* meanwhile.
ActiveData ==
    [storylines |-> storylines, eventTypes |-> eventTypes, events |-> events,
     eventConnections |-> eventConnections, eraOrder |-> eraOrder]

\* The script list of App with the data of the active script in its entry.
CurrentScripts ==
    [k \in 1..Len(scripts) |->
        IF scripts[k].id = activeScriptId
        THEN [scripts[k] EXCEPT !.data = ActiveData]
        ELSE scripts[k]]

\* editingEvent when no event is being edited or requested (App.tsx lines
\* 96 and 196): the value without any field.
undefined == <<>>

\* The null of a pointer position, which is <<x, y2>> otherwise.
nullPoint == <<>>

\* connectingState when no connect gesture is under way (TimelineView.tsx
\* line 179 and the resets of lines 633 and 657).
Idle == [isConnecting |-> FALSE, sourceEventId |-> null, sourcePos |-> nullPoint,
         endPos |-> nullPoint]

\* The layout useMemo re-runs when one of its dependencies changed
\* (TimelineView.tsx line 497), on the props and state of the new render.
Render ==
    layout' = Layout(filteredEvents(events', searchTerm'), storylines', eventTypes',
                     eraOrder', expandedEvents', eventConnections')

\* The highlight useMemo re-runs when hoveredEventId or eventConnections
\* changed (line 612).
RenderHighlight == highlight' = Highlight(hoveredEventId', eventConnections')

highlightedEvents == highlight.highlightedEvents

highlightedConnectionInfo == highlight.highlightedConnectionInfo

\* A new script (App.tsx lines 153-170): one era and no events, to which
\* two storylines and one event type have been added.
Init ==
    /\ events = <<>>
    /\ storylines = <<"s1", "s2">>
    /\ eventTypes = <<"t1">>
    /\ eraOrder = <<GregorianAnchor>>
    /\ eventConnections = <<>>
    /\ expandedEvents = {}
    /\ hoveredEventId = null
    /\ searchTerm = <<>>
    /\ eventSerial = 0
    /\ connSerial = 0
    /\ layout = Layout(<<>>, <<"s1", "s2">>, <<"t1">>, <<GregorianAnchor>>, {}, <<>>)
    /\ highlight = Highlight(null, <<>>)
    /\ connectingState = Idle
    /\ listeners = {}
    /\ editingEvent = undefined
    /\ isEventModalOpen = FALSE
    /\ storylineSerial = Len(storylines)
    /\ typeSerial = Len(eventTypes)
    /\ scripts = <<[id |-> ScriptIdSeq[1], data |-> ActiveData]>>
    /\ activeScriptId = ScriptIdSeq[1]
    /\ scriptSerial = 1

\* EventFormModal.handleSubmit for a new event (lines 249-324) with no
\* connection rows in the form.
SubmitNewEvent(form) ==
    /\ form.era \in EraNames
    /\ form.storylineId \in StorylineIds \cup {null}
    /\ form.typeId \in EventTypeIds \cup {null}
    /\ eventSerial' = eventSerial + 1
    /\ events' = Append(events, [id |-> EventIdSeq[eventSerial + 1],
                                 title |-> form.title,
                                 date |-> FinalDate(form.era, form.parts, form.showTime),
                                 storylineId |-> form.storylineId,
                                 typeId |-> form.typeId,
                                 description |-> form.description])
    /\ UNCHANGED <<storylines, eventTypes, eraOrder, eventConnections, expandedEvents, hoveredEventId, searchTerm, connSerial, highlight, connectingState, listeners, editingEvent, isEventModalOpen, storylineSerial, typeSerial, scripts, activeScriptId, scriptSerial>>
    /\ Render

\* toggleEventExpansion (lines 210-220), from the chevron of a rendered event.
ToggleEventExpansion(eventId) ==
    /\ eventId \in DOMAIN layout.eventLayouts
    /\ expandedEvents' = newSet(expandedEvents, eventId)
    /\ UNCHANGED <<events, storylines, eventTypes, eraOrder, eventConnections, hoveredEventId, searchTerm, eventSerial, connSerial, highlight, connectingState, listeners, editingEvent, isEventModalOpen, storylineSerial, typeSerial, scripts, activeScriptId, scriptSerial>>
    /\ Render

\* handleConnectionEnd released over the rendered event droppedOnEventId
\* (lines 637-649), the drag having started on the rendered event eventId.
ConnectGesture(eventId, droppedOnEventId) ==
    /\ eventId \in DOMAIN layout.eventLayouts
    /\ droppedOnEventId \in DOMAIN layout.eventLayouts
    /\ eventId # droppedOnEventId
    /\ connSerial' = connSerial + 1
    /\ eventConnections' = Append(eventConnections,
            [id |-> ConnIdSeq[connSerial + 1], fromEventId |-> eventId,
             toEventId |-> droppedOnEventId])
    /\ UNCHANGED <<events, storylines, eventTypes, eraOrder, expandedEvents, hoveredEventId, searchTerm, eventSerial, connectingState, listeners, editingEvent, isEventModalOpen, storylineSerial, typeSerial, scripts, activeScriptId, scriptSerial>>
    /\ Render
    /\ RenderHighlight

\* ConnectionFormModal.handleSubmit (EventFormModal.tsx lines 1464-1470):
\* any two different events of the script.
SubmitConnection(fromId, toId) ==
    /\ fromId \in EventIds /\ toId \in EventIds
    /\ fromId # toId
    /\ connSerial' = connSerial + 1
    /\ eventConnections' = Append(eventConnections,
            [id |-> ConnIdSeq[connSerial + 1], fromEventId |-> fromId, toEventId |-> toId])
    /\ UNCHANGED <<events, storylines, eventTypes, eraOrder, expandedEvents, hoveredEventId, searchTerm, eventSerial, connectingState, listeners, editingEvent, isEventModalOpen, storylineSerial, typeSerial, scripts, activeScriptId, scriptSerial>>
    /\ Render
    /\ RenderHighlight

\* The search box (App.tsx lines 104-108): a term typed, or cleared.
SetSearchTerm(term) ==
    /\ term # searchTerm
    /\ searchTerm' = term
    /\ UNCHANGED <<events, storylines, eventTypes, eraOrder, eventConnections, expandedEvents, hoveredEventId, eventSerial, connSerial, highlight, connectingState, listeners, editingEvent, isEventModalOpen, storylineSerial, typeSerial, scripts, activeScriptId, scriptSerial>>
    /\ Render

\* onMouseEnter of a rendered event card (line 900).
MouseEnter(eventId) ==
    /\ eventId \in DOMAIN layout.eventLayouts
    /\ hoveredEventId # eventId
    /\ hoveredEventId' = eventId
    /\ UNCHANGED <<events, storylines, eventTypes, eraOrder, eventConnections, expandedEvents, searchTerm, eventSerial, connSerial, layout, connectingState, listeners, editingEvent, isEventModalOpen, storylineSerial, typeSerial, scripts, activeScriptId, scriptSerial>>
    /\ RenderHighlight

\* onMouseLeave (line 901).
MouseLeave ==
    /\ hoveredEventId # null
    /\ hoveredEventId' = null
    /\ UNCHANGED <<events, storylines, eventTypes, eraOrder, eventConnections, expandedEvents, searchTerm, eventSerial, connSerial, layout, connectingState, listeners, editingEvent, isEventModalOpen, storylineSerial, typeSerial, scripts, activeScriptId, scriptSerial>>
    /\ RenderHighlight

\* handleAddNewEra (EventFormModal.tsx lines 224-227).
AddNewEra(name) ==
    /\ eraOrder' = Append(eraOrder, name)
    /\ UNCHANGED <<events, storylines, eventTypes, eventConnections, expandedEvents, hoveredEventId, searchTerm, eventSerial, connSerial, highlight, connectingState, listeners, editingEvent, isEventModalOpen, storylineSerial, typeSerial, scripts, activeScriptId, scriptSerial>>
    /\ Render

\* EraManager.handleDrop (EventFormModal.tsx lines 1006-1020): the dragged
\* era is taken out and put back at dropIndex (0-based).
EraDrop(draggedEra, dropIndex) ==
    /\ draggedEra \in EraNames
    /\ dropIndex \in 0..(Len(eraOrder) - 1)
    /\ LET draggedIndex == (CHOOSE i \in 1..Len(eraOrder) :
                               /\ eraOrder[i] = draggedEra
                               /\ \A j \in 1..(i - 1) : eraOrder[j] # draggedEra) - 1
           without == SelectSeq([i \in 1..Len(eraOrder) |-> <<i, eraOrder[i]>>],
                                LAMBDA q : q[1] # draggedIndex + 1)
           rest    == [i \in 1..Len(without) |-> without[i][2]]
       IN  /\ draggedIndex # dropIndex
           /\ eraOrder' = SubSeq(rest, 1, dropIndex) \o <<draggedEra>>
                          \o SubSeq(rest, dropIndex + 1, Len(rest))
    /\ UNCHANGED <<events, storylines, eventTypes, eventConnections, expandedEvents, hoveredEventId, searchTerm, eventSerial, connSerial, highlight, connectingState, listeners, editingEvent, isEventModalOpen, storylineSerial, typeSerial, scripts, activeScriptId, scriptSerial>>
    /\ Render

----------------------------------------------------------------------------
\* handleDeleteEra (EventFormModal.tsx lines 637-639), index 0-based.
DeleteEra(index) ==
    /\ index \in 0..(Len(eraOrder) - 1)
    /\ eraOrder' = SubSeq(eraOrder, 1, index) \o SubSeq(eraOrder, index + 2, Len(eraOrder))
    /\ UNCHANGED <<events, storylines, eventTypes, eventConnections, expandedEvents, hoveredEventId, searchTerm, eventSerial, connSerial, highlight, connectingState, listeners, editingEvent, isEventModalOpen, storylineSerial, typeSerial, scripts, activeScriptId, scriptSerial>>
    /\ Render

\* StorylineFormModal.handleSubmit for a new storyline (EventFormModal.tsx
\* lines 1091-1100).
SubmitNewStoryline ==
    /\ storylineSerial' = storylineSerial + 1
    /\ storylines' = Append(storylines, StorylineIdSeq[storylineSerial + 1])
    /\ UNCHANGED <<events, eventTypes, eraOrder, eventConnections, expandedEvents, hoveredEventId, searchTerm, eventSerial, connSerial, highlight, connectingState, listeners, editingEvent, isEventModalOpen, typeSerial, scripts, activeScriptId, scriptSerial>>
    /\ Render

\* EventTypeFormModal.handleSubmit for a new event type (EventFormModal.tsx
\* lines 1129-1138).
SubmitNewEventType ==
    /\ typeSerial' = typeSerial + 1
    /\ eventTypes' = Append(eventTypes, EventTypeIdSeq[typeSerial + 1])
    /\ UNCHANGED <<events, storylines, eraOrder, eventConnections, expandedEvents, hoveredEventId, searchTerm, eventSerial, connSerial, highlight, connectingState, listeners, editingEvent, isEventModalOpen, storylineSerial, scripts, activeScriptId, scriptSerial>>
    /\ Render

\* handleDeleteStoryline (EventFormModal.tsx lines 608-611).
DeleteStoryline(storylineId) ==
    /\ storylineId \in StorylineIds
    /\ storylines' = SelectSeq(storylines, LAMBDA s : s # storylineId)
    /\ events' = [i \in 1..Len(events) |->
                     IF events[i].storylineId = storylineId
                     THEN [events[i] EXCEPT !.storylineId = null]
                     ELSE events[i]]
    /\ UNCHANGED <<eventTypes, eraOrder, eventConnections, expandedEvents, hoveredEventId, searchTerm, eventSerial, connSerial, highlight, connectingState, listeners, editingEvent, isEventModalOpen, storylineSerial, typeSerial, scripts, activeScriptId, scriptSerial>>
    /\ Render

\* currentStorylines.findIndex(s => s.id === draggedId), 0-based.
RECURSIVE StorylineIndexFrom(_, _, _)
StorylineIndexFrom(currentStorylines, draggedId, i) ==
    IF i > Len(currentStorylines) THEN -1
    ELSE IF currentStorylines[i] = draggedId THEN i - 1
    ELSE StorylineIndexFrom(currentStorylines, draggedId, i + 1)

\* The two splices of lines 683-686 with the item put back one place
\* further down.
ReorderedOneLater(currentStorylines, draggedItemIndex, dropIndex) ==
    LET rest == SubSeq(currentStorylines, 1, draggedItemIndex)
                \o SubSeq(currentStorylines, draggedItemIndex + 2, Len(currentStorylines))
    IN  SubSeq(rest, 1, Min(dropIndex + 1, Len(rest)))
        \o <<currentStorylines[draggedItemIndex + 1]>>
        \o SubSeq(rest, Min(dropIndex + 1, Len(rest)) + 1, Len(rest))

\* The two splices of lines 683-686.
Reordered(currentStorylines, draggedItemIndex, dropIndex) ==
    LET rest == SubSeq(currentStorylines, 1, draggedItemIndex)
                \o SubSeq(currentStorylines, draggedItemIndex + 2, Len(currentStorylines))
    IN  SubSeq(rest, 1, Min(dropIndex, Len(rest)))
        \o <<currentStorylines[draggedItemIndex + 1]>>
        \o SubSeq(rest, Min(dropIndex, Len(rest)) + 1, Len(rest))

\* The function handleStorylineDrop gives to setStorylines (lines 680-687).
reorderedStorylines(currentStorylines, draggedId, dropIndex) ==
    IF \/ StorylineIndexFrom(currentStorylines, draggedId, 1) = -1
       \/ StorylineIndexFrom(currentStorylines, draggedId, 1) = dropIndex
    THEN currentStorylines
    ELSE Reordered(currentStorylines,
                   StorylineIndexFrom(currentStorylines, draggedId, 1), dropIndex)

\* handleStorylineDrop (TimelineView.tsx lines 675-688): the lane header of
\* draggedId dropped on the header at dropIndex (0-based).
StorylineDrop(draggedId, dropIndex) ==
    /\ draggedId \in StorylineIds
    /\ dropIndex \in 0..(Len(storylines) - 1)
    /\ StorylineIndexFrom(storylines, draggedId, 1) # dropIndex
    /\ storylines' = Reordered(storylines, StorylineIndexFrom(storylines, draggedId, 1), dropIndex)
    /\ UNCHANGED <<events, eventTypes, eraOrder, eventConnections, expandedEvents, hoveredEventId, searchTerm, eventSerial, connSerial, highlight, connectingState, listeners, editingEvent, isEventModalOpen, storylineSerial, typeSerial, scripts, activeScriptId, scriptSerial>>
    /\ Render


\* The keys of the events of one lane in the order the lane's Map of days
\* gives them (lines 314-320, 358, 365): the days in the order of their
\* first event, the events of a day in sorted order.
RECURSIVE LaneEntries(_, _)
LaneEntries(lane, k) ==
    IF k > Len(lane) THEN <<>>
    ELSE (IF \A j \in 1..(k - 1) : lane[j].dayKey # lane[k].dayKey
          THEN DayGroup(lane, lane[k].dayKey)
          ELSE <<>>)
         \o LaneEntries(lane, k + 1)

\* eventLayouts.entries() (line 638): the laid-out events in the order they
\* were set (lines 353-390), storyline i and the storylines after it.
RECURSIVE LayoutEntries(_, _, _, _)
LayoutEntries(sorted, storylineList, eventLayouts, i) ==
    IF i > Len(storylineList) THEN <<>>
    ELSE LET IsLaidOut(a) == a.event.id \in DOMAIN eventLayouts
         IN  SelectSeq(LaneEntries(LaneEvents(sorted, storylineList[i]), 1), IsLaidOut)
             \o LayoutEntries(sorted, storylineList, eventLayouts, i + 1)

\* The test of line 639 with the edges left out of the rectangle.
ContainsInside(rect, point) ==
    /\ point[1] > rect.x /\ point[1] < rect.x + rect.width
    /\ point[2] > rect.y2 /\ point[2] < rect.y2 + 2 * rect.height

\* The test of line 639: the point lies in the closed rectangle.
Contains(rect, point) ==
    /\ point[1] >= rect.x /\ point[1] <= rect.x + rect.width
    /\ point[2] >= rect.y2 /\ point[2] <= rect.y2 + 2 * rect.height

\* droppedOnEventId (lines 637-643): the first entry from entry i on whose
\* rectangle contains the point, null when there is none.
RECURSIVE DroppedOnEventId(_, _, _, _)
DroppedOnEventId(point, entries, eventLayouts, i) ==
    IF i > Len(entries) THEN null
    ELSE IF Contains(eventLayouts[entries[i].event.id], point) THEN entries[i].event.id
    ELSE DroppedOnEventId(point, entries, eventLayouts, i + 1)

\* The event under the point at the last render.
EventAt(point) ==
    DroppedOnEventId(point, LayoutEntries(layout.sortedEvents, storylines,
                                          layout.eventLayouts, 1),
                     layout.eventLayouts, 1)

\* getDropTarget as the last render left it.
DropTarget(point, env) == getDropTarget(point[1], point[2], storylines, layout, env)

\* handleOpenEventModal (App.tsx lines 190-193), which TimelineView is given
\* as onAddEventRequest (line 249).
OpenEventModal(event) ==
    /\ editingEvent' = event
    /\ isEventModalOpen' = TRUE

\* handleCloseEventModal (App.tsx lines 195-198).
CloseEventModal ==
    /\ isEventModalOpen
    /\ editingEvent' = undefined
    /\ isEventModalOpen' = FALSE
    /\ UNCHANGED <<events, storylines, eventTypes, eraOrder, eventConnections, expandedEvents, hoveredEventId, searchTerm, eventSerial, connSerial, layout, highlight, connectingState, listeners, storylineSerial, typeSerial, scripts, activeScriptId, scriptSerial>>

\* handleDoubleClick (lines 751-759) on the background rectangle of the
\* canvas (line 850), which spans canvasWidth by totalHeight and lies under
\* the event cards.  An exception of getDropTarget ends the handler.
DoubleClick(point, env) ==
    /\ ~isEventModalOpen
    /\ listeners = {}
    /\ point # nullPoint => /\ point[1] \in 0..layout.canvasWidth
                            /\ point[2] \in 0..(2 * layout.totalHeight)
                            /\ EventAt(point) = null
    /\ IF point = nullPoint \/ DropTarget(point, env) = nullTarget
          \/ Throws(DropTarget(point, env))
       THEN UNCHANGED <<editingEvent, isEventModalOpen>>
       ELSE OpenEventModal(DropTarget(point, env))
    /\ UNCHANGED <<events, storylines, eventTypes, eraOrder, eventConnections, expandedEvents, hoveredEventId, searchTerm, eventSerial, connSerial, layout, highlight, connectingState, listeners, storylineSerial, typeSerial, scripts, activeScriptId, scriptSerial>>

\* handleConnectionStart (lines 616-618, 660-661) on the connection handle
\* of a rendered event (line 954): startPos is the middle of the right edge
\* of its rectangle.  The button goes down only after it went up.
ConnectionStart(eventId) ==
    /\ ~isEventModalOpen
    /\ listeners = {}
    /\ eventId \in DOMAIN layout.eventLayouts
    /\ LET rect     == layout.eventLayouts[eventId]
           startPos == <<rect.x + rect.width, rect.y2 + rect.height>>
       IN  connectingState' = [isConnecting |-> TRUE, sourceEventId |-> eventId,
                               sourcePos |-> startPos, endPos |-> startPos]
    /\ listeners' = {"mousemove", "mouseup"}
    /\ UNCHANGED <<events, storylines, eventTypes, eraOrder, eventConnections, expandedEvents, hoveredEventId, searchTerm, eventSerial, connSerial, layout, highlight, editingEvent, isEventModalOpen, storylineSerial, typeSerial, scripts, activeScriptId, scriptSerial>>

\* handleConnectionMove (lines 620-625), the window's mousemove listener.
ConnectionMove(point) ==
    /\ "mousemove" \in listeners
    /\ connectingState' = IF point # nullPoint
                          THEN [connectingState EXCEPT !.endPos = point]
                          ELSE connectingState
    /\ UNCHANGED <<events, storylines, eventTypes, eraOrder, eventConnections, expandedEvents, hoveredEventId, searchTerm, eventSerial, connSerial, layout, highlight, listeners, editingEvent, isEventModalOpen, storylineSerial, typeSerial, scripts, activeScriptId, scriptSerial>>

\* The part of handleConnectionEnd after the listeners were removed (lines
\* 631-657) for the gesture that started on eventId, the pointer released
\* at point over droppedOnEventId and dropTarget.  An exception of
\* getDropTarget (line 651) ends the handler before line 657.
ConnectionResolved(eventId, point, droppedOnEventId, dropTarget) ==
    /\ connectingState' = IF point # nullPoint /\ droppedOnEventId = null
                             /\ Throws(dropTarget)
                          THEN connectingState
                          ELSE Idle
    /\ IF point # nullPoint /\ droppedOnEventId # null /\ eventId # droppedOnEventId
       THEN /\ connSerial' = connSerial + 1
            /\ eventConnections' = Append(eventConnections,
                    [id |-> ConnIdSeq[connSerial + 1], fromEventId |-> eventId,
                     toEventId |-> droppedOnEventId])
       ELSE UNCHANGED <<eventConnections, connSerial>>
    /\ IF point # nullPoint /\ droppedOnEventId = null
          /\ dropTarget # nullTarget /\ ~Throws(dropTarget)
       THEN OpenEventModal([storylineId |-> dropTarget.storylineId,
                            date |-> dropTarget.date, connectFrom |-> eventId])
       ELSE UNCHANGED <<editingEvent, isEventModalOpen>>

\* handleConnectionEnd (lines 627-658), the window's mouseup listener.
ConnectionEnd(point, env) ==
    /\ "mouseup" \in listeners
    /\ listeners' = {}
    /\ ConnectionResolved(connectingState.sourceEventId, point,
                          IF point = nullPoint THEN null ELSE EventAt(point),
                          IF point = nullPoint THEN nullTarget ELSE DropTarget(point, env))
    /\ UNCHANGED <<events, storylines, eventTypes, eraOrder, expandedEvents, hoveredEventId, searchTerm, eventSerial, storylineSerial, typeSerial, scripts, activeScriptId, scriptSerial>>
    /\ Render
    /\ RenderHighlight

(* What the user types into the event form.                               *)

\* A form filled in for a date without a time of day.
DayForm(title, era, year, month, day, storylineId, typeId) ==
    [title |-> title, era |-> era, showTime |-> FALSE,
     parts |-> [NoParts EXCEPT !.year = year, !.month = month, !.day = day],
     storylineId |-> storylineId, typeId |-> typeId, description |-> <<>>]

\* A form filled in for a date and an hour.
HourForm(title, era, year, month, day, hour, storylineId, typeId) ==
    [title |-> title, era |-> era, showTime |-> TRUE,
     parts |-> [NoParts EXCEPT !.year = year, !.month = month, !.day = day, !.hour = hour],
     storylineId |-> storylineId, typeId |-> typeId, description |-> <<>>]

Y2020 == <<"2", "0", "2", "0">>

\* new Date() on the day the program runs, as YYYY-MM-DD.
Today == <<"2", "0", "2", "4", "-", "0", "6", "-", "0", "1">>

\* handleEditFromDetails (App.tsx lines 210-213): the event shown in the
\* details modal is opened in the form.
EditEvent(eventId) ==
    /\ ~isEventModalOpen
    /\ listeners = {}
    /\ \E k \in 1..Len(events) :
          /\ events[k].id = eventId
          /\ OpenEventModal(events[k])
    /\ UNCHANGED <<events, storylines, eventTypes, eraOrder, eventConnections, expandedEvents, hoveredEventId, searchTerm, eventSerial, connSerial, layout, highlight, connectingState, listeners, storylineSerial, typeSerial, scripts, activeScriptId, scriptSerial>>

\* handleSubmit (lines 249-324) for an event opened for editing, the form
\* submitted as it was filled in from the event; the year is a required
\* field.
SubmitEditedEvent ==
    /\ isEventModalOpen
    /\ "id" \in DOMAIN editingEvent
    /\ EditFormState(editingEvent.date, eraOrder, Today).dateParts.year # <<>>
    /\ events' = [k \in 1..Len(events) |->
                    IF events[k].id = editingEvent.id
                    THEN SavedEvent(events[k],
                                    EditFormState(editingEvent.date, eraOrder, Today),
                                    storylines, eventTypes)
                    ELSE events[k]]
    /\ eventConnections' = SavedConnections(eventConnections, editingEvent.id)
    /\ editingEvent' = undefined
    /\ isEventModalOpen' = FALSE
    /\ UNCHANGED <<storylines, eventTypes, eraOrder, expandedEvents, hoveredEventId, searchTerm, eventSerial, connSerial, connectingState, listeners, storylineSerial, typeSerial, scripts, activeScriptId, scriptSerial>>
    /\ Render
    /\ RenderHighlight

\* The rows handleSubmit saves for a new event (lines 280-290): the rows of
\* the form, then the predecessor row of the request of a connect gesture.
connectionsToSave(formConnections, eventToEdit) ==
    IF "connectFrom" \in DOMAIN eventToEdit
    THEN Append(formConnections,
                [type |-> "predecessor", otherEventId |-> eventToEdit.connectFrom])
    ELSE formConnections

\* newConns of handleSubmit (lines 307-317) for rows without an originalId;
\* serial numbers stand for the generated ids.
newConns(rows, eventId, serial) ==
    [i \in 1..Len(rows) |->
        [id |-> ConnIdSeq[serial + i],
         fromEventId |-> IF rows[i].type = "successor" THEN eventId
                         ELSE rows[i].otherEventId,
         toEventId |-> IF rows[i].type = "successor" THEN rows[i].otherEventId
                       ELSE eventId]]

\* handleSubmit (lines 249-324) for the request of a double click or of a
\* connect gesture: the date and the storyline are those of the request,
\* the title is typed, and formConnections holds the rows added with
\* handleAddConnection (lines 229-243), whose other event is an option of
\* the select (lines 494-497).
SubmitRequestedEvent(title, formConnections) ==
    /\ isEventModalOpen
    /\ editingEvent # undefined
    /\ "id" \notin DOMAIN editingEvent
    /\ \A i \in 1..Len(formConnections) : formConnections[i].otherEventId \in EventIds
    /\ EditFormState(editingEvent.date, eraOrder, Today).dateParts.year # <<>>
    /\ eventSerial' = eventSerial + 1
    /\ events' = Append(events,
            [id |-> EventIdSeq[eventSerial + 1],
             title |-> title,
             date |-> FinalDate(EditFormState(editingEvent.date, eraOrder, Today).selectedEra,
                                EditFormState(editingEvent.date, eraOrder, Today).dateParts,
                                EditFormState(editingEvent.date, eraOrder, Today).showTime),
             storylineId |-> FormDefault(editingEvent.storylineId, storylines),
             typeId |-> FormDefault(null, eventTypes),
             description |-> <<>>])
    /\ connSerial' = connSerial + Len(connectionsToSave(formConnections, editingEvent))
    /\ eventConnections' =
          SavedConnections(eventConnections, EventIdSeq[eventSerial + 1])
          \o newConns(connectionsToSave(formConnections, editingEvent),
                      EventIdSeq[eventSerial + 1], connSerial)
    /\ editingEvent' = undefined
    /\ isEventModalOpen' = FALSE
    /\ UNCHANGED <<storylines, eventTypes, eraOrder, expandedEvents, hoveredEventId, searchTerm, connectingState, listeners, storylineSerial, typeSerial, scripts, activeScriptId, scriptSerial>>
    /\ Render
    /\ RenderHighlight

\* Sidebar.handleDeleteEvent (EventFormModal.tsx lines 632-635) with only
\* the event list filtered.
DeleteEventKeepingConnections(eventId) ==
    /\ ~isEventModalOpen
    /\ listeners = {}
    /\ eventId \in EventIds
    /\ events' = SelectSeq(events, LAMBDA e : e.id # eventId)
    /\ UNCHANGED <<eventConnections, storylines, eventTypes, eraOrder, expandedEvents, hoveredEventId, searchTerm, eventSerial, connSerial, connectingState, listeners, editingEvent, isEventModalOpen, storylineSerial, typeSerial, scripts, activeScriptId, scriptSerial>>
    /\ Render
    /\ RenderHighlight

\* Sidebar.handleDeleteEvent (EventFormModal.tsx lines 632-635), confirmed
\* by the user for an event of the sidebar's list.
DeleteEvent(eventId) ==
    /\ ~isEventModalOpen
    /\ listeners = {}
    /\ eventId \in EventIds
    /\ events' = SelectSeq(events, LAMBDA e : e.id # eventId)
    /\ eventConnections' = SelectSeq(eventConnections,
            LAMBDA c : c.fromEventId # eventId /\ c.toEventId # eventId)
    /\ UNCHANGED <<storylines, eventTypes, eraOrder, expandedEvents, hoveredEventId, searchTerm, eventSerial, connSerial, connectingState, listeners, editingEvent, isEventModalOpen, storylineSerial, typeSerial, scripts, activeScriptId, scriptSerial>>
    /\ Render
    /\ RenderHighlight

\* EventDetailsModal.handleConfirmDelete (TimelineView.tsx lines 1106-1110):
\* a connection of the event whose details are shown, which is an event
\* clicked on the canvas, is deleted.
DeleteConnection(connId) ==
    /\ ~isEventModalOpen
    /\ listeners = {}
    /\ \E k \in 1..Len(eventConnections) :
          /\ eventConnections[k].id = connId
          /\ \/ eventConnections[k].fromEventId \in DOMAIN layout.eventLayouts
             \/ eventConnections[k].toEventId \in DOMAIN layout.eventLayouts
    /\ eventConnections' = SelectSeq(eventConnections, LAMBDA c : c.id # connId)
    /\ UNCHANGED <<events, storylines, eventTypes, eraOrder, expandedEvents, hoveredEventId, searchTerm, eventSerial, connSerial, connectingState, listeners, editingEvent, isEventModalOpen, storylineSerial, typeSerial, scripts, activeScriptId, scriptSerial>>
    /\ Render
    /\ RenderHighlight

\* The data of the script with this id in list; nothing is shown when no
\* script is active (App.tsx lines 236, 266-278).
ShownData(list, id) ==
    IF \E k \in 1..Len(list) : list[k].id = id
    THEN list[CHOOSE k \in 1..Len(list) : list[k].id = id].data
    ELSE NewScriptData

\* The render after setScripts and setActiveScriptId: activeScript (App.tsx
\* line 93) is the script of the list with the active id, and a timeline
\* of another script is mounted anew (key, line 242), with its own state
\* as at the start.
ShowScript(list, id) ==
    /\ scripts' = [k \in 1..Len(list) |->
                      IF list[k].id = id
                      THEN [list[k] EXCEPT !.data = NewScriptData]
                      ELSE list[k]]
    /\ activeScriptId' = id
    /\ IF id = activeScriptId
       THEN UNCHANGED <<events, storylines, eventTypes, eraOrder, eventConnections, expandedEvents, hoveredEventId, connectingState>>
       ELSE /\ events' = ShownData(list, id).events
            /\ storylines' = ShownData(list, id).storylines
            /\ eventTypes' = ShownData(list, id).eventTypes
            /\ eraOrder' = ShownData(list, id).eraOrder
            /\ eventConnections' = ShownData(list, id).eventConnections
            /\ expandedEvents' = {}
            /\ hoveredEventId' = null
            /\ connectingState' = Idle
    /\ UNCHANGED <<searchTerm, eventSerial, connSerial, listeners, editingEvent, isEventModalOpen, storylineSerial, typeSerial>>
    /\ Render
    /\ RenderHighlight

\* handleCreateScript (App.tsx lines 153-170)
CreateScript ==
    /\ ~isEventModalOpen
    /\ listeners = {}
    /\ scriptSerial' = scriptSerial + 1
    /\ ShowScript(Append(CurrentScripts,
                         [id |-> ScriptIdSeq[scriptSerial + 1], data |-> NewScriptData]),
                  ScriptIdSeq[scriptSerial + 1])

\* handleDeleteScript (App.tsx lines 172-188); an id that is not in the
\* list ends the handler at line 174.
DeleteScript(idToDelete) ==
    /\ ~isEventModalOpen
    /\ listeners = {}
    /\ scriptIndex(CurrentScripts, idToDelete) # -1
    /\ ShowScript(newScripts(CurrentScripts, idToDelete),
                  ActiveAfterDelete(CurrentScripts, activeScriptId, idToDelete))
    /\ UNCHANGED scriptSerial

\* ScriptSelector.handleSelect (EventFormModal.tsx lines 832-835): another
\* script of the list is chosen.
SelectScript(id) ==
    /\ ~isEventModalOpen
    /\ listeners = {}
    /\ id \in ScriptIds
    /\ id # activeScriptId
    /\ ShowScript(CurrentScripts, id)
    /\ UNCHANGED scriptSerial

\* The forms of the layout exploration: 30 February (which Date.UTC reads
\* as 1 March) with and without a time, 1 March, in either lane, and forms
\* with "no storyline" or "no type" chosen.
LayoutForms ==
    { DayForm(<<"a">>, GregorianAnchor, Y2020, <<"2">>, <<"3", "0">>, "s1", "t1"),
      HourForm(<<"a">>, GregorianAnchor, Y2020, <<"2">>, <<"3", "0">>, <<"8">>, "s1", "t1"),
      DayForm(<<"a">>, GregorianAnchor, Y2020, <<"3">>, <<"1">>, "s1", "t1"),
      DayForm(<<"a">>, GregorianAnchor, Y2020, <<"3">>, <<"1">>, "s2", "t1"),
      HourForm(<<"a">>, GregorianAnchor, Y2020, <<"2">>, <<"3", "0">>, <<"8">>, "s2", "t1"),
      DayForm(<<"a">>, GregorianAnchor, Y2020, <<"3">>, <<"1">>, null, "t1"),
      DayForm(<<"a">>, GregorianAnchor, Y2020, <<"2">>, <<"3", "0">>, "s1", null) }

\* Bounds of the layout exploration.
MaxEvents == 3

MaxConns == 1

Next ==
    \/ eventSerial < MaxEvents /\ \E form \in LayoutForms : SubmitNewEvent(form)
    \/ \E id \in EventIds : ToggleEventExpansion(id)
    \/ connSerial < MaxConns /\ \E a \in EventIds, b \in EventIds : ConnectGesture(a, b)

Spec == Init /\ [][Next]_vars

\* The forms of the date exploration: Gregorian years 99, 100, 2020 and
\* 6000, and dates of the custom era, all in one lane.
EraLegend == <<"chuan", "shuo", "ji", "yuan">>

DateForms ==
    { DayForm(<<"a">>, GregorianAnchor, <<"9", "9">>, <<"1">>, <<"1">>, "s1", "t1"),
      DayForm(<<"a">>, GregorianAnchor, <<"1", "0", "0">>, <<"1">>, <<"1">>, "s1", "t1"),
      DayForm(<<"a">>, GregorianAnchor, Y2020, <<"3">>, <<"1">>, "s1", "t1"),
      HourForm(<<"a">>, GregorianAnchor, Y2020, <<"3">>, <<"1">>, <<"8">>, "s1", "t1"),
      DayForm(<<"a">>, GregorianAnchor, <<"6", "0", "0", "0">>, <<"1">>, <<"1">>, "s1", "t1"),
      DayForm(<<"a">>, EraLegend, <<"3">>, <<"1">>, <<>>, "s1", "t1"),
      DayForm(<<"a">>, EraLegend, <<"3">>, <<"2">>, <<>>, "s1", "t1"),
      DayForm(<<"a">>, EraLegend, <<"1">>, <<"1">>, <<"1">>, "s1", "t1") }

\* Bounds of the date exploration.
MaxDateEvents == 2

MaxEras == 2

NextDate ==
    \/ eventSerial < MaxDateEvents /\ \E form \in DateForms : SubmitNewEvent(form)
    \/ Len(eraOrder) < MaxEras /\ AddNewEra(EraLegend)
    \/ \E era \in EraNames, dropIndex \in 0..(Len(eraOrder) - 1) : EraDrop(era, dropIndex)

SpecDate == Init /\ [][NextDate]_vars

\* The forms of the routing exploration: two events of one day and lane,
\* an event of the next day in the other lane, and one with no storyline;
\* the search box hides the events whose title lacks the term.
RouteForms ==
    { DayForm(<<"a">>, GregorianAnchor, Y2020, <<"3">>, <<"1">>, "s1", "t1"),
      DayForm(<<"b">>, GregorianAnchor, Y2020, <<"3">>, <<"1">>, "s1", "t1"),
      DayForm(<<"b">>, GregorianAnchor, Y2020, <<"3">>, <<"2">>, "s2", "t1"),
      DayForm(<<"b">>, GregorianAnchor, Y2020, <<"3">>, <<"2">>, null, "t1") }

SearchTerms == {<<>>, <<"B">>}

\* Bounds of the routing exploration.
MaxRouteEvents == 3

MaxRouteConns == 3

NextRoute ==
    \/ eventSerial < MaxRouteEvents /\ \E form \in RouteForms : SubmitNewEvent(form)
    \/ connSerial < MaxRouteConns /\ \E a \in EventIds, b \in EventIds : SubmitConnection(a, b)
    \/ \E term \in SearchTerms : SetSearchTerm(term)

SpecRoute == Init /\ [][NextRoute]_vars

\* The hover exploration starts from a script read back from storage
\* (App.tsx line 51): three events of one day, and a connection list that
\* may hold self-loops, which no form of the program creates.
StoredEvents ==
    [i \in 1..3 |->
        [id |-> EventIdSeq[i], title |-> <<"a">>,
         date |-> <<"2", "0", "2", "0", "-", "0", "3", "-", "0", "1">>,
         storylineId |-> "s1", typeId |-> "t1", description |-> <<>>]]

StoredConnection(n, fromId, toId) ==
    [id |-> ConnIdSeq[n], fromEventId |-> fromId, toEventId |-> toId]

StoredConnectionLists ==
    { <<>>,
      <<StoredConnection(1, "e1", "e1"), StoredConnection(2, "e3", "e3")>>,
      <<StoredConnection(1, "e3", "e1"), StoredConnection(2, "e1", "e1")>> }

InitStored ==
    /\ events = StoredEvents
    /\ storylines = <<"s1", "s2">>
    /\ eventTypes = <<"t1">>
    /\ eraOrder = <<GregorianAnchor>>
    /\ eventConnections \in StoredConnectionLists
    /\ expandedEvents = {}
    /\ hoveredEventId = null
    /\ searchTerm = <<>>
    /\ eventSerial = Len(events)
    /\ connSerial = Len(eventConnections)
    /\ layout = Layout(events, storylines, eventTypes, eraOrder, expandedEvents,
                       eventConnections)
    /\ highlight = Highlight(hoveredEventId, eventConnections)
    /\ connectingState = Idle
    /\ listeners = {}
    /\ editingEvent = undefined
    /\ isEventModalOpen = FALSE
    /\ storylineSerial = Len(storylines)
    /\ typeSerial = Len(eventTypes)
    /\ scripts = <<[id |-> ScriptIdSeq[1], data |-> ActiveData]>>
    /\ activeScriptId = ScriptIdSeq[1]
    /\ scriptSerial = 1

\* The drags of the hover exploration.
HoverDrags == {<<"e1", "e2">>, <<"e2", "e3">>}

\* Bound of the hover exploration: one connection more than the palette
\* has colours.
MaxHoverConns == 8

NextHover ==
    \/ connSerial < MaxHoverConns /\ \E drag \in HoverDrags : ConnectGesture(drag[1], drag[2])
    \/ \E id \in EventIds : MouseEnter(id)
    \/ MouseLeave

SpecHover == InitStored /\ [][NextHover]_vars

\* The exploration of date texts starts from a script read back from
\* storage (App.tsx line 51) whose events carry the dates below, whatever
\* wrote them: a BC date, the text BC-5, a word, a Gregorian date, a date of
\* the custom era and a blank.
StoredDates ==
    { <<"B", "C", " ", "5">>,
      <<"B", "C", "-", "5">>,
      <<"h", "i">>,
      <<"2", "0", "2", "0", "-", "0", "3", "-", "0", "1">>,
      EraLegend \o <<" ", "3", ".", "0", "1", "0", "0", "0", "0", "0", "0", "0", "0">>,
      <<" ">> }

\* Bound of the exploration of date texts: events in the stored script.
MaxStoredDates == 3

StoredDateLists ==
    {dates \in UNION {[1..n -> StoredDates] : n \in 0..MaxStoredDates} :
        \A j \in 1..Len(dates), k \in 1..Len(dates) : j # k => dates[j] # dates[k]}

InitStoredDates ==
    /\ \E dates \in StoredDateLists :
          events = [i \in 1..Len(dates) |->
                       [id |-> EventIdSeq[i], title |-> <<"a">>, date |-> dates[i],
                        storylineId |-> "s1", typeId |-> "t1", description |-> <<>>]]
    /\ storylines = <<"s1", "s2">>
    /\ eventTypes = <<"t1">>
    /\ eraOrder = <<GregorianAnchor, EraLegend>>
    /\ eventConnections = <<>>
    /\ expandedEvents = {}
    /\ hoveredEventId = null
    /\ searchTerm = <<>>
    /\ eventSerial = Len(events)
    /\ connSerial = 0
    /\ layout = Layout(events, storylines, eventTypes, eraOrder, expandedEvents,
                       eventConnections)
    /\ highlight = Highlight(null, <<>>)
    /\ connectingState = Idle
    /\ listeners = {}
    /\ editingEvent = undefined
    /\ isEventModalOpen = FALSE
    /\ storylineSerial = Len(storylines)
    /\ typeSerial = Len(eventTypes)
    /\ scripts = <<[id |-> ScriptIdSeq[1], data |-> ActiveData]>>
    /\ activeScriptId = ScriptIdSeq[1]
    /\ scriptSerial = 1

NextStoredDates ==
    \/ \E index \in 0..(Len(eraOrder) - 1) : DeleteEra(index)
    \/ \E id \in EventIds : ToggleEventExpansion(id)

SpecStoredDates == InitStoredDates /\ [][NextStoredDates]_vars

\* The lane exploration starts from a script as handleCreateScript makes it
\* (App.tsx lines 153-170): one era, no storyline, no event type, no event.
InitNewScript ==
    /\ events = <<>>
    /\ storylines = <<>>
    /\ eventTypes = <<>>
    /\ eraOrder = <<GregorianAnchor>>
    /\ eventConnections = <<>>
    /\ expandedEvents = {}
    /\ hoveredEventId = null
    /\ searchTerm = <<>>
    /\ eventSerial = 0
    /\ connSerial = 0
    /\ layout = Layout(<<>>, <<>>, <<>>, <<GregorianAnchor>>, {}, <<>>)
    /\ highlight = Highlight(null, <<>>)
    /\ connectingState = Idle
    /\ listeners = {}
    /\ editingEvent = undefined
    /\ isEventModalOpen = FALSE
    /\ storylineSerial = 0
    /\ typeSerial = 0
    /\ scripts = <<[id |-> ScriptIdSeq[1], data |-> ActiveData]>>
    /\ activeScriptId = ScriptIdSeq[1]
    /\ scriptSerial = 1

\* The forms of the lane exploration: two events of 1 March in the first
\* storyline, so that they stack, and one of 2 March in the second.
LaneForms ==
    { DayForm(<<"a">>, GregorianAnchor, Y2020, <<"3">>, <<"1">>, "s1", "t1"),
      DayForm(<<"a">>, GregorianAnchor, Y2020, <<"3">>, <<"2">>, "s2", "t1") }

\* Bounds of the lane exploration.
MaxLaneEvents == 3

MaxStorylines == 3

MaxEventTypes == 1

MaxLaneConns == 1

NextLanes ==
    \/ storylineSerial < MaxStorylines /\ SubmitNewStoryline
    \/ typeSerial < MaxEventTypes /\ SubmitNewEventType
    \/ \E id \in StorylineIds : DeleteStoryline(id)
    \/ \E id \in StorylineIds, dropIndex \in 0..(Len(storylines) - 1) : StorylineDrop(id, dropIndex)
    \/ eventSerial < MaxLaneEvents /\ \E form \in LaneForms : SubmitNewEvent(form)
    \/ \E id \in EventIds : ToggleEventExpansion(id)
    \/ connSerial < MaxLaneConns /\ \E a \in EventIds, b \in EventIds : ConnectGesture(a, b)

SpecLanes == InitNewScript /\ [][NextLanes]_vars

\* The pointer exploration: a script with two storylines and two eras, the
\* events added through the form.
InitPointer ==
    /\ events = <<>>
    /\ storylines = <<"s1", "s2">>
    /\ eventTypes = <<"t1">>
    /\ eraOrder = <<GregorianAnchor, EraLegend>>
    /\ eventConnections = <<>>
    /\ expandedEvents = {}
    /\ hoveredEventId = null
    /\ searchTerm = <<>>
    /\ eventSerial = 0
    /\ connSerial = 0
    /\ layout = Layout(<<>>, <<"s1", "s2">>, <<"t1">>, <<GregorianAnchor, EraLegend>>, {}, <<>>)
    /\ highlight = Highlight(null, <<>>)
    /\ connectingState = Idle
    /\ listeners = {}
    /\ editingEvent = undefined
    /\ isEventModalOpen = FALSE
    /\ storylineSerial = Len(storylines)
    /\ typeSerial = Len(eventTypes)
    /\ scripts = <<[id |-> ScriptIdSeq[1], data |-> ActiveData]>>
    /\ activeScriptId = ScriptIdSeq[1]
    /\ scriptSerial = 1

\* The forms of the pointer exploration: 29 March 2020 with and without a
\* time, a form with only the year filled in (month and day are not
\* required fields), 30 February, and a date of the custom era.
PointerForms ==
    { DayForm(<<"a">>, GregorianAnchor, Y2020, <<"3">>, <<"2", "9">>, "s1", "t1"),
      HourForm(<<"a">>, GregorianAnchor, Y2020, <<"3">>, <<"2", "9">>, <<"8">>, "s1", "t1"),
      DayForm(<<"a">>, GregorianAnchor, Y2020, <<>>, <<>>, "s2", "t1"),
      DayForm(<<"a">>, GregorianAnchor, Y2020, <<"2">>, <<"3", "0">>, "s1", "t1"),
      DayForm(<<"a">>, EraLegend, <<"3">>, <<"1">>, <<"1">>, "s2", "t1") }

\* Pointer positions <<x, y2>>: left of the first column's end, in the
\* second column, on the line between the two, right of every column, and
\* in the first lane, the second lane or below the lanes.
PointerPoints ==
    { <<30, 200>>, <<100, 80>>, <<400, 80>>, <<260, 200>>, <<600, 80>>, <<600, 400>> }

\* What the environment decides in a call of getDropTarget.
PointerEnvs == [today : {Today}, engine : {"carries", "rejects"}, zone : {"UTC", "CET"}]

\* Bounds of the pointer exploration.
MaxPointerEvents == 2

MaxPointerConns == 2

NextPointer ==
    \/ /\ eventSerial < MaxPointerEvents /\ ~isEventModalOpen /\ listeners = {}
       /\ \E form \in PointerForms : SubmitNewEvent(form)
    \/ \E point \in PointerPoints \cup {nullPoint}, env \in PointerEnvs : DoubleClick(point, env)
    \/ CloseEventModal
    \/ connSerial < MaxPointerConns /\ \E id \in EventIds : ConnectionStart(id)
    \/ \E point \in PointerPoints \cup {nullPoint} : ConnectionMove(point)
    \/ \E point \in PointerPoints \cup {nullPoint}, env \in PointerEnvs : ConnectionEnd(point, env)

SpecPointer == InitPointer /\ [][NextPointer]_vars

\* The form exploration.  EraShort is an era whose name is the beginning
\* of the name of EraLegend.
EraShort == <<"chuan", "shuo">>

EraOrders ==
    { <<GregorianAnchor>>, <<GregorianAnchor, EraLegend>>, <<EraLegend, GregorianAnchor>>,
      <<GregorianAnchor, EraLegend, EraShort>>, <<GregorianAnchor, EraShort, EraLegend>> }

InitForm ==
    /\ events = <<>>
    /\ storylines = <<"s1", "s2">>
    /\ eventTypes = <<"t1">>
    /\ eraOrder \in EraOrders
    /\ eventConnections = <<>>
    /\ expandedEvents = {}
    /\ hoveredEventId = null
    /\ searchTerm = <<>>
    /\ eventSerial = 0
    /\ connSerial = 0
    /\ layout = Layout(<<>>, storylines, eventTypes, eraOrder, {}, <<>>)
    /\ highlight = Highlight(null, <<>>)
    /\ connectingState = Idle
    /\ listeners = {}
    /\ editingEvent = undefined
    /\ isEventModalOpen = FALSE
    /\ storylineSerial = Len(storylines)
    /\ typeSerial = Len(eventTypes)
    /\ scripts = <<[id |-> ScriptIdSeq[1], data |-> ActiveData]>>
    /\ activeScriptId = ScriptIdSeq[1]
    /\ scriptSerial = 1

\* What is typed into the date fields of the form: years of one, four and
\* five digits, the other fields empty or of one or two digits, the time
\* fields shown or hidden.
FormYears == { <<"5">>, Y2020, <<"1", "2", "3", "4", "5">> }

FormMonths == { <<>>, <<"3">>, <<"1", "2">> }

FormHours == { <<>>, <<"0">>, <<"8">> }

FormMinutes == { <<>>, <<"3", "0">> }

FilledForms(eras) ==
    { [title |-> <<"a">>, era |-> era, showTime |-> showTime,
       parts |-> [year |-> year, month |-> month, day |-> <<"1">>, hour |-> hour,
                  minute |-> minute, second |-> <<>>],
       storylineId |-> "s1", typeId |-> "t1", description |-> <<>>] :
        era \in eras, showTime \in BOOLEAN, year \in FormYears, month \in FormMonths,
        hour \in FormHours, minute \in FormMinutes }

\* The forms that are submitted in the form exploration.
SubmittedForms ==
    { form \in FilledForms({GregorianAnchor, EraLegend, EraShort}) :
        /\ form.parts.month = <<"3">>
        /\ form.parts.minute = <<>>
        /\ form.parts.hour \in {<<>>, <<"8">>}
        /\ form.showTime = (form.parts.hour # <<>>)
        /\ form.parts.year \in IF form.era = GregorianAnchor
                               THEN {Y2020, <<"1", "2", "3", "4", "5">>}
                               ELSE {<<"5">>} }

\* Bound of the form exploration.
MaxFormEvents == 2

NextForm ==
    \/ /\ eventSerial < MaxFormEvents /\ ~isEventModalOpen
       /\ \E form \in SubmittedForms : SubmitNewEvent(form)
    \/ \E id \in EventIds : EditEvent(id)
    \/ SubmitEditedEvent
    \/ CloseEventModal

SpecForm == InitForm /\ [][NextForm]_vars

\* The column exploration: a stored script of MaxStoredSameDay events, the
\* first n of 1 January 2020 and the others of 2 January, in two lanes by
\* turns; the last event of each day has no time of day and the others are
\* of 08:00:00, so that the stored order is not the chronological one.
MaxStoredSameDay == 13

Jan2020(day, withTime) ==
    <<"2", "0", "2", "0", "-", "0", "1", "-", "0", day>>
    \o (IF withTime THEN <<" ", "0", "8", ":", "0", "0", ":", "0", "0">> ELSE <<>>)

CrowdedEvents(n) ==
    [i \in 1..MaxStoredSameDay |->
        [id |-> EventIdSeq[i], title |-> <<"a">>,
         date |-> Jan2020(IF i <= n THEN "1" ELSE "2", i # n /\ i # MaxStoredSameDay),
         storylineId |-> IF i % 2 = 1 THEN "s1" ELSE "s2", typeId |-> "t1",
         description |-> <<>>]]

InitCrowded ==
    /\ \E n \in 0..MaxStoredSameDay : events = CrowdedEvents(n)
    /\ storylines = <<"s1", "s2">>
    /\ eventTypes = <<"t1">>
    /\ eraOrder = <<GregorianAnchor>>
    /\ eventConnections = <<>>
    /\ expandedEvents = {}
    /\ hoveredEventId = null
    /\ searchTerm = <<>>
    /\ eventSerial = Len(events)
    /\ connSerial = 0
    /\ layout = Layout(events, storylines, eventTypes, eraOrder, expandedEvents,
                       eventConnections)
    /\ highlight = Highlight(null, <<>>)
    /\ connectingState = Idle
    /\ listeners = {}
    /\ editingEvent = undefined
    /\ isEventModalOpen = FALSE
    /\ storylineSerial = Len(storylines)
    /\ typeSerial = Len(eventTypes)
    /\ scripts = <<[id |-> ScriptIdSeq[1], data |-> ActiveData]>>
    /\ activeScriptId = ScriptIdSeq[1]
    /\ scriptSerial = 1

\* The forms of the column exploration: 1 January with and without a time,
\* and the day before, which becomes the first column.
ColumnForms ==
    { DayForm(<<"a">>, GregorianAnchor, Y2020, <<"1">>, <<"1">>, "s1", "t1"),
      HourForm(<<"a">>, GregorianAnchor, Y2020, <<"1">>, <<"1">>, <<"8">>, "s2", "t1"),
      DayForm(<<"a">>, GregorianAnchor, <<"2", "0", "1", "9">>, <<"1", "2">>, <<"3", "1">>,
              "s1", "t1") }

\* The events that are expanded and collapsed in the column exploration.
ToggledEvents == {"e1", "e13"}

\* Bound of the column exploration: events in the script.
MaxColumnEvents == 14

NextColumns ==
    \/ eventSerial < MaxColumnEvents /\ \E form \in ColumnForms : SubmitNewEvent(form)
    \/ \E id \in ToggledEvents : ToggleEventExpansion(id)

SpecColumns == InitCrowded /\ [][NextColumns]_vars

\* The exploration of anchor sides starts from a script read back from
\* storage (App.tsx line 51): two events of 1 March in the first storyline,
\* one of 1 March and one of 2 March in the second, and a connection list
\* that may hold self-loops, which no form of the program creates.
AnchorEvents ==
    [i \in 1..4 |->
        [id |-> EventIdSeq[i], title |-> <<"a">>,
         date |-> <<"2", "0", "2", "0", "-", "0", "3", "-", "0",
                    IF i = 4 THEN "2" ELSE "1">>,
         storylineId |-> IF i <= 2 THEN "s1" ELSE "s2",
         typeId |-> "t1", description |-> <<>>]]

AnchorConnectionLists ==
    { <<StoredConnection(1, "e1", "e1")>>,
      <<StoredConnection(1, "e2", "e2"), StoredConnection(2, "e2", "e1")>> }

InitAnchors ==
    /\ events = AnchorEvents
    /\ storylines = <<"s1", "s2">>
    /\ eventTypes = <<"t1">>
    /\ eraOrder = <<GregorianAnchor>>
    /\ eventConnections \in AnchorConnectionLists
    /\ expandedEvents = {}
    /\ hoveredEventId = null
    /\ searchTerm = <<>>
    /\ eventSerial = Len(events)
    /\ connSerial = Len(eventConnections)
    /\ layout = Layout(events, storylines, eventTypes, eraOrder, expandedEvents,
                       eventConnections)
    /\ highlight = Highlight(hoveredEventId, eventConnections)
    /\ connectingState = Idle
    /\ listeners = {}
    /\ editingEvent = undefined
    /\ isEventModalOpen = FALSE
    /\ storylineSerial = Len(storylines)
    /\ typeSerial = Len(eventTypes)
    /\ scripts = <<[id |-> ScriptIdSeq[1], data |-> ActiveData]>>
    /\ activeScriptId = ScriptIdSeq[1]
    /\ scriptSerial = 1

\* Bound of the exploration of anchor sides: connections in the list.
MaxAnchorConns == 3

\* The events whose cards are expanded in the exploration of anchor sides.
AnchorToggles == {"e1", "e3"}

NextAnchors ==
    \/ connSerial < MaxAnchorConns /\ \E a \in EventIds, b \in EventIds : SubmitConnection(a, b)
    \/ \E id \in AnchorToggles : ToggleEventExpansion(id)
    \/ \E id \in StorylineIds, dropIndex \in 0..(Len(storylines) - 1) : StorylineDrop(id, dropIndex)

SpecAnchors == InitAnchors /\ [][NextAnchors]_vars

\* The exploration of BC dates: era names are free text (EventFormModal.tsx
\* lines 224-227), and a date of an era named BC is saved as 'BC 5.0101000000',
\* which normalizeDate and getDayKey read as BC notation.  The Gregorian
\* forms lie on both sides of 1 January 1970.
EraBc == <<"B", "C">>

BcForms ==
    { DayForm(<<"a">>, EraBc, <<"5">>, <<"1">>, <<"1">>, "s1", "t1"),
      DayForm(<<"a">>, EraBc, <<"0">>, <<>>, <<>>, "s1", "t1"),
      DayForm(<<"a">>, GregorianAnchor, <<"1", "9", "6", "9">>, <<"1", "2">>, <<"3", "1">>, "s1", "t1"),
      DayForm(<<"a">>, GregorianAnchor, <<"1", "9", "7", "0">>, <<"1">>, <<"1">>, "s1", "t1"),
      DayForm(<<"a">>, GregorianAnchor, Y2020, <<"3">>, <<"1">>, "s2", "t1") }

\* Bounds of the exploration of BC dates.
MaxBcEvents == 3

MaxBcEras == 2

NextBc ==
    \/ eventSerial < MaxBcEvents /\ \E form \in BcForms : SubmitNewEvent(form)
    \/ Len(eraOrder) < MaxBcEras /\ AddNewEra(EraBc)

SpecBc == Init /\ [][NextBc]_vars

\* The exploration of connections: events are added with the form and from
\* the requests of connect gestures, connected with the connection form,
\* with connect gestures and with the rows of the event form, edited, and
\* events and connections are deleted.
IntegrityForms ==
    { DayForm(<<"a">>, GregorianAnchor, Y2020, <<"3">>, <<"1">>, "s1", "t1") }

\* Pointer positions <<x, y2>> of a release: in the first column and first
\* lane, and right of it in the second lane and in the first lane.
IntegrityPoints == { <<100, 80>>, <<400, 240>>, <<400, 80>> }

IntegrityEnv == [today |-> Today, engine |-> "carries", zone |-> "UTC"]

\* The rows a user can add to the form of a new event.
IntegrityRows ==
    {<<>>} \cup {<<[type |-> "successor", otherEventId |-> o]>> : o \in EventIds}

\* Bounds of the exploration of connections.
MaxIntegrityEvents == 3

MaxIntegrityConns == 3

NextIntegrity ==
    \/ /\ eventSerial < MaxIntegrityEvents /\ ~isEventModalOpen /\ listeners = {}
       /\ \E form \in IntegrityForms : SubmitNewEvent(form)
    \/ /\ connSerial < MaxIntegrityConns /\ ~isEventModalOpen /\ listeners = {}
       /\ \E fromId, toId \in EventIds : SubmitConnection(fromId, toId)
    \/ /\ connSerial < MaxIntegrityConns /\ eventSerial < MaxIntegrityEvents
       /\ \E id \in EventIds : ConnectionStart(id)
    \/ \E point \in IntegrityPoints : ConnectionEnd(point, IntegrityEnv)
    \/ /\ connSerial + 1 < MaxIntegrityConns
       /\ \E rows \in IntegrityRows : SubmitRequestedEvent(<<"b">>, rows)
    \/ CloseEventModal
    \/ \E id \in EventIds : EditEvent(id)
    \/ SubmitEditedEvent
    \/ \E id \in EventIds : DeleteEvent(id)
    \/ \E k \in 1..Len(eventConnections) : DeleteConnection(eventConnections[k].id)

SpecIntegrity == Init /\ [][NextIntegrity]_vars

\* The exploration of the script list: scripts are created, chosen and
\* deleted, and events are added to the active script, with a storyline of
\* the first script or with none.
ScriptForms ==
    { DayForm(<<"a">>, GregorianAnchor, Y2020, <<"3">>, <<"1">>, "s1", "t1"),
      DayForm(<<"a">>, GregorianAnchor, Y2020, <<"3">>, <<"1">>, null, null) }

\* Bounds of the exploration of the script list.
MaxScripts == 4

MaxScriptEvents == 2

NextScripts ==
    \/ scriptSerial < MaxScripts /\ CreateScript
    \/ \E id \in ScriptIds : DeleteScript(id)
    \/ \E id \in ScriptIds : SelectScript(id)
    \/ /\ eventSerial < MaxScriptEvents /\ activeScriptId # null
       /\ \E form \in ScriptForms : SubmitNewEvent(form)

SpecScripts == Init /\ [][NextScripts]_vars

----------------------------------------------------------------------------
(* Claims.                                                                *)

Rects == layout.eventLayouts

\* Closed rectangles [x, x+width] x [y, y+height] of a and b share a point.
Overlap(a, b) ==
    /\ a.x <= b.x + b.width /\ b.x <= a.x + a.width
    /\ a.y2 <= b.y2 + 2 * b.height /\ b.y2 <= a.y2 + 2 * a.height

\* C1: any two distinct laid-out events have non-overlapping rectangles:
\* same day key and lane - at least SAME_DAY_VERTICAL_GAP apart vertically;
\* different day keys - at least EVENT_GAP apart horizontally; different
\* lanes - inside the disjoint bands of their lanes.
C1_NoOverlap ==
    \A i \in DOMAIN Rects : \A j \in DOMAIN Rects : i # j =>
        LET a == Rects[i]
            b == Rects[j]
            la == layout.laneGeometries[a.event.storylineId]
            lb == layout.laneGeometries[b.event.storylineId]
        IN  /\ ~Overlap(a, b)
            /\ (a.dayKey = b.dayKey /\ a.event.storylineId = b.event.storylineId) =>
                  \/ a.y2 + 2 * a.height + 2 * SAME_DAY_VERTICAL_GAP <= b.y2
                  \/ b.y2 + 2 * b.height + 2 * SAME_DAY_VERTICAL_GAP <= a.y2
            /\ a.dayKey # b.dayKey =>
                  \/ a.x + a.width + EVENT_GAP <= b.x
                  \/ b.x + b.width + EVENT_GAP <= a.x
            /\ a.event.storylineId # b.event.storylineId =>
                  /\ 2 * la.y <= a.y2 /\ a.y2 + 2 * a.height <= 2 * (la.y + la.height)
                  /\ 2 * lb.y <= b.y2 /\ b.y2 + 2 * b.height <= 2 * (lb.y + lb.height)
                  /\ (la.y + la.height <= lb.y \/ lb.y + lb.height <= la.y)

\* Two events stacked in one lane on one day, and an event in another lane.
C1_Witness ==
    /\ \E i \in DOMAIN Rects, j \in DOMAIN Rects :
          /\ i # j /\ Rects[i].dayKey = Rects[j].dayKey
          /\ Rects[i].event.storylineId = Rects[j].event.storylineId
    /\ \E i \in DOMAIN Rects, j \in DOMAIN Rects :
          Rects[i].event.storylineId # Rects[j].event.storylineId

\* The order key the layout sorted the laid-out event id by.
KeyOf(id) ==
    LET s == layout.sortedEvents
    IN  s[CHOOSE k \in 1..Len(s) : s[k].event.id = id].key

\* x of the day column of the laid-out event id.
ColumnXOf(id) == layout.dayColumnGeometries[Rects[id].dayKey].x

\* C2 as stated: for laid-out events A, B with normalizeDate(A.date) <
\* normalizeDate(B.date), A's day column is not right of B's, and the two
\* columns coincide only when A and B share a day key.
C2_LeftToRightByKey ==
    \A a \in DOMAIN Rects : \A b \in DOMAIN Rects :
        KeyLess(KeyOf(a), KeyOf(b)) =>
            /\ ColumnXOf(a) <= ColumnXOf(b)
            /\ ColumnXOf(a) = ColumnXOf(b) => Rects[a].dayKey = Rects[b].dayKey

\* Every complete event of B's day key has an order key greater than A's.
DayStartsAfter(a, b) ==
    LET s == layout.sortedEvents
    IN  \A k \in 1..Len(s) :
            s[k].dayKey = Rects[b].dayKey => KeyLess(KeyOf(a), s[k].key)

\* C2 amended: day columns stand in the order of each day key's earliest
\* event.  Laid-out events sharing a day key share a column; and A's column
\* is strictly left of B's whenever every complete event of B's day key has
\* an order key greater than A's.
C2_ColumnsByEarliestEvent ==
    \A a \in DOMAIN Rects : \A b \in DOMAIN Rects :
        /\ Rects[a].dayKey = Rects[b].dayKey => ColumnXOf(a) = ColumnXOf(b)
        /\ (Rects[a].dayKey # Rects[b].dayKey /\ DayStartsAfter(a, b)) =>
              ColumnXOf(a) < ColumnXOf(b)

\* Two columns, the right one shared by two events that both come after
\* an event of the left one.
C2_Witness ==
    \E a \in DOMAIN Rects, b \in DOMAIN Rects, c \in DOMAIN Rects :
        /\ b # c /\ Rects[b].dayKey = Rects[c].dayKey
        /\ Rects[a].dayKey # Rects[b].dayKey
        /\ DayStartsAfter(a, b)
        /\ ColumnXOf(a) < ColumnXOf(b)

\* An event lacking a storyline reference, a type reference or a date.
Lacking(e) == e.storylineId = null \/ e.typeId = null \/ e.date = <<>>

\* The geometry a layout computed: rectangles (with the indentation in x),
\* day columns, lanes and canvas size.
Geometry(l) ==
    [eventLayouts |-> l.eventLayouts, dayColumnGeometries |-> l.dayColumnGeometries,
     laneGeometries |-> l.laneGeometries, sortedUniqueDays |-> l.sortedUniqueDays,
     canvasWidth |-> l.canvasWidth, totalHeight |-> l.totalHeight]

\* The layout of the given event list under the other inputs of the state.
LayoutOf(list) ==
    Layout(list, storylines, eventTypes, eraOrder, expandedEvents, eventConnections)

\* An event saved without a date.
Dateless == [id |-> "e0", title |-> <<"a">>, date |-> <<>>, storylineId |-> "s1", typeId |-> "t1", description |-> <<>>]

\* C8: an event lacking a storyline, a type or a date is never laid out and
\* does not influence the geometry: the layout of the state equals the
\* layout of the list with every such event removed, and equals the layout
\* with a dateless event put in front of or behind the list; the event list
\* of the state still holds the lacking events.
C8_IncompleteEventsIgnored ==
    LET shown == filteredEvents(events, searchTerm)
    IN  /\ \A k \in 1..Len(shown) :
              Lacking(shown[k]) => shown[k].id \notin DOMAIN layout.eventLayouts
        /\ Geometry(layout) = Geometry(LayoutOf(SelectSeq(shown, LAMBDA e : ~Lacking(e))))
        /\ Geometry(layout) = Geometry(LayoutOf(<<Dateless>> \o shown))
        /\ Geometry(layout) = Geometry(LayoutOf(Append(shown, Dateless)))
        /\ "e0" \notin DOMAIN LayoutOf(Append(shown, Dateless)).eventLayouts

\* A laid-out event shares the list with an event that lacks its storyline
\* and with one that lacks its type.
C8_Witness ==
    /\ DOMAIN layout.eventLayouts # {}
    /\ \E k \in 1..Len(events) : events[k].storylineId = null
    /\ \E k \in 1..Len(events) : events[k].typeId = null

----------------------------------------------------------------------------
(* Claims about the order key.                                            *)

\* Position (1-based) of the first blank of a saved date, 0 when none.
FirstBlank(date) ==
    IF \E i \in 1..Len(date) : date[i] = " "
    THEN CHOOSE i \in 1..Len(date) : date[i] = " " /\ \A j \in 1..(i - 1) : date[j] # " "
    ELSE 0

\* The era a saved date was entered in.
EraOf(date) ==
    IF GregorianDayMatches(date) THEN GregorianAnchor
    ELSE SubSeq(date, 1, FirstBlank(date) - 1)

\* The number a run of digit characters denotes.
NumberOf(ds) == IF ds = <<>> THEN 0 ELSE parseInt(ds)

\* <<year, month, day, hour, minute, second>> of a saved date.
FieldsOf(date) ==
    IF GregorianDayMatches(date)
    THEN <<NumberOf(SubSeq(date, 1, 4)), NumberOf(SubSeq(date, 6, 7)),
           NumberOf(SubSeq(date, 9, 10)),
           IF Len(date) >= 19 THEN NumberOf(SubSeq(date, 12, 13)) ELSE 0,
           IF Len(date) >= 19 THEN NumberOf(SubSeq(date, 15, 16)) ELSE 0,
           IF Len(date) >= 19 THEN NumberOf(SubSeq(date, 18, 19)) ELSE 0>>
    ELSE LET v   == SubSeq(date, FirstBlank(date) + 1, Len(date))
             dot == CHOOSE i \in 1..Len(v) : v[i] = "."
             f   == SubSeq(v, dot + 1, Len(v)) \o <<"0", "0", "0", "0", "0", "0", "0", "0", "0", "0">>
         IN  <<NumberOf(SubSeq(v, 1, dot - 1)), NumberOf(SubSeq(f, 1, 2)),
               NumberOf(SubSeq(f, 3, 4)), NumberOf(SubSeq(f, 5, 6)),
               NumberOf(SubSeq(f, 7, 8)), NumberOf(SubSeq(f, 9, 10))>>

\* Year first, then month, day, hour, minute, second.
RECURSIVE FieldsBefore(_, _, _)
FieldsBefore(a, b, i) ==
    IF i > 6 THEN FALSE
    ELSE IF a[i] # b[i] THEN a[i] < b[i]
    ELSE FieldsBefore(a, b, i + 1)

\* The saved date and, for a custom-era date, the same date written without
\* the trailing zeros of its fraction.
RECURSIVE DropTrailingZeros(_)
DropTrailingZeros(date) ==
    IF date # <<>> /\ date[Len(date)] = "0" /\ date[Len(date) - 1] # "."
    THEN DropTrailingZeros(SubSeq(date, 1, Len(date) - 1))
    ELSE date

Spellings(date) ==
    IF GregorianDayMatches(date) THEN {date} ELSE {date, DropTrailingZeros(date)}

\* C3 as stated: of two dates of one era, the chronologically earlier one
\* (year, then month, day, hour, minute, second) has the strictly smaller
\* order key, however many trailing fraction digits are written and
\* wherever the era stands in eraOrder.
C3_SameEraMonotonic ==
    \A i \in 1..Len(events) : \A j \in 1..Len(events) :
        (/\ EraOf(events[i].date) = EraOf(events[j].date)
         /\ FieldsBefore(FieldsOf(events[i].date), FieldsOf(events[j].date), 1)) =>
            \A x \in Spellings(events[i].date) : \A y \in Spellings(events[j].date) :
                KeyLess(normalizeDate(x, eraOrder), normalizeDate(y, eraOrder))

\* Position (1-based) of an era name in eraOrder, 0 when absent.
EraIndex(era) ==
    IF \E i \in 1..Len(eraOrder) : eraOrder[i] = era
    THEN CHOOSE i \in 1..Len(eraOrder) :
            eraOrder[i] = era /\ \A j \in 1..(i - 1) : eraOrder[j] # era
    ELSE 0

\* Position of the era of a saved date.
EraPosition(date) == EraIndex(EraOf(date))

\* C4 as stated: of two recognized dates whose eras stand at different
\* positions of eraOrder (a Gregorian date belongs to the anchor era), the
\* date of the earlier-positioned era has the strictly smaller order key.
C4_EraPositionDominates ==
    \A i \in 1..Len(events) : \A j \in 1..Len(events) :
        (/\ EraPosition(events[i].date) # 0
         /\ EraPosition(events[i].date) < EraPosition(events[j].date)) =>
            KeyLess(normalizeDate(events[i].date, eraOrder),
                    normalizeDate(events[j].date, eraOrder))

----------------------------------------------------------------------------
(* Connection routing.                                                    *)

Paths == layout.connectionPaths

\* The positions in the connection list of the routed connections.
Routed == {k \in 1..Len(eventConnections) : eventConnections[k].id \in DOMAIN Paths}

\* The routed connections with an end anchored to the given side of event id.
LeavesBy(k, id, side) ==
    eventConnections[k].fromEventId = id /\ Paths[eventConnections[k].id].fromSide = side

ArrivesBy(k, id, side) ==
    eventConnections[k].toEventId = id /\ Paths[eventConnections[k].id].toSide = side

AnchoredTo(id, side) == {k \in Routed : LeavesBy(k, id, side) \/ ArrivesBy(k, id, side)}

\* The point at which connection k meets that side.
AnchorPoint(k, id, side) ==
    IF LeavesBy(k, id, side) THEN Paths[eventConnections[k].id].from
    ELSE Paths[eventConnections[k].id].to

Horizontal(side) == side \in {"top", "bottom"}

\* The coordinate of a point that runs along the side.
AlongSide(point, side) == IF Horizontal(side) THEN point[1] ELSE point[2]

\* The point lies on the line of the side.
OnSide(point, rect, side) ==
    CASE side = "top"    -> point[2] = Rat(rect.y2, 2)
      [] side = "bottom" -> point[2] = Rat(rect.y2 + 2 * rect.height, 2)
      [] side = "left"   -> point[1] = RInt(rect.x)
      [] side = "right"  -> point[1] = RInt(rect.x + rect.width)

\* The corner the side starts from, its length, and the place at fraction
\* k/(n+1) of it.
SideOrigin(rect, side) == IF Horizontal(side) THEN RInt(rect.x) ELSE Rat(rect.y2, 2)

SideLength(rect, side) == IF Horizontal(side) THEN rect.width ELSE rect.height

PlaceOnSide(rect, side, k, n) ==
    RAdd(SideOrigin(rect, side), Rat(SideLength(rect, side) * k, n + 1))

\* The rank of connection k among the connections S, in list order.
RankIn(k, S) == Cardinality({j \in S : j <= k})

\* C6: for every laid-out event and side, with N routed connections
\* anchored to it, the k-th in list order is anchored at fraction k/(N+1)
\* along the side; the running count of the side ends equal to its
\* precomputed total N; so the anchor positions are strictly increasing,
\* pairwise distinct and strictly between the two corners.
C6_PortsFanOut ==
    \A id \in DOMAIN Rects : \A side \in Sides :
        /\ layout.portTotals[<<id, side>>] = Cardinality(AnchoredTo(id, side))
        /\ layout.portUsage[<<id, side>>] = Cardinality(AnchoredTo(id, side))
        /\ \A k \in AnchoredTo(id, side) :
              /\ OnSide(AnchorPoint(k, id, side), Rects[id], side)
              /\ AlongSide(AnchorPoint(k, id, side), side)
                    = PlaceOnSide(Rects[id], side, RankIn(k, AnchoredTo(id, side)),
                                  Cardinality(AnchoredTo(id, side)))
              /\ RLess(SideOrigin(Rects[id], side),
                       AlongSide(AnchorPoint(k, id, side), side))
              /\ RLess(AlongSide(AnchorPoint(k, id, side), side),
                       RAdd(SideOrigin(Rects[id], side),
                            RInt(SideLength(Rects[id], side))))
              /\ \A j \in AnchoredTo(id, side) : j < k =>
                    RLess(AlongSide(AnchorPoint(j, id, side), side),
                          AlongSide(AnchorPoint(k, id, side), side))

\* Two connections between the same two events, both routed, so that a side
\* carries two anchors, and a side that carries three.
C6_Witness ==
    /\ \E j \in Routed, k \in Routed :
          /\ j < k
          /\ eventConnections[j].fromEventId = eventConnections[k].fromEventId
          /\ eventConnections[j].toEventId = eventConnections[k].toEventId
    /\ \E id \in DOMAIN Rects, side \in Sides : Cardinality(AnchoredTo(id, side)) = 3

\* A connection one of whose endpoints has no rectangle.
Dangling(conn) ==
    conn.fromEventId \notin DOMAIN Rects \/ conn.toEventId \notin DOMAIN Rects

\* The layout of the same inputs with another connection list.
LayoutWith(connections) ==
    Layout(filteredEvents(events, searchTerm), storylines, eventTypes, eraOrder,
           expandedEvents, connections)

\* Two layouts with the same paths, port totals and port counts.
SameRouting(l, m) ==
    /\ l.connectionPaths = m.connectionPaths
    /\ l.portTotals = m.portTotals
    /\ l.portUsage = m.portUsage

\* C7: connectionPaths has an entry for a connection exactly when both its
\* endpoints have a rectangle, and the connections that lack an endpoint
\* add nothing to a port total and change no other connection's path or
\* endpoints: routing the list without them gives the same result.
C7_DanglingConnectionsIgnored ==
    /\ DOMAIN Paths = {eventConnections[k].id :
                          k \in {j \in 1..Len(eventConnections) :
                                    ~Dangling(eventConnections[j])}}
    /\ SameRouting(layout,
                   LayoutWith(SelectSeq(eventConnections, LAMBDA conn : ~Dangling(conn))))

\* A connection to an event without a storyline or hidden by the search
\* box, next to a routed connection of the same source event, the dangling
\* one being the earlier of the two.
C7_Witness ==
    \E j \in 1..Len(eventConnections), k \in Routed :
        /\ j < k
        /\ Dangling(eventConnections[j])
        /\ eventConnections[j].fromEventId = eventConnections[k].fromEventId
        /\ eventConnections[j].toEventId \in EventIds

----------------------------------------------------------------------------
(* Hover highlighting.                                                    *)

\* The events one connection away from a set of events, in either direction.
Touching(S) ==
    S \cup {eventConnections[k].toEventId :
               k \in {j \in 1..Len(eventConnections) : eventConnections[j].fromEventId \in S}}
      \cup {eventConnections[k].fromEventId :
               k \in {j \in 1..Len(eventConnections) : eventConnections[j].toEventId \in S}}

\* The least set that holds S and is closed under Touching.
RECURSIVE ReachableFrom(_)
ReachableFrom(S) == IF Touching(S) = S THEN S ELSE ReachableFrom(Touching(S))

Touches(conn, id) == conn.fromEventId = id \/ conn.toEventId = id

\* C10: with E hovered, highlightedEvents is the set of events reachable
\* from E by undirected paths over the connections, E included; the keys of
\* highlightedConnectionInfo are the connections with both endpoints in
\* it; an event no connection touches gives a component of size 1 and an
\* empty map; the traversal ends, its loop having run once per event of
\* the component.
C10_ComponentIsReachability ==
    hoveredEventId # null =>
        /\ highlightedEvents = ReachableFrom({hoveredEventId})
        /\ hoveredEventId \in highlightedEvents
        /\ DOMAIN highlightedConnectionInfo
              = {eventConnections[k].id :
                    k \in {j \in 1..Len(eventConnections) :
                              /\ eventConnections[j].fromEventId \in ReachableFrom({hoveredEventId})
                              /\ eventConnections[j].toEventId \in ReachableFrom({hoveredEventId})}}
        /\ (\A k \in 1..Len(eventConnections) : ~Touches(eventConnections[k], hoveredEventId))
              => (Cardinality(highlightedEvents) = 1 /\ DOMAIN highlightedConnectionInfo = {})
        /\ highlight.dequeued = Cardinality(highlightedEvents)

\* A hovered event whose component has two events joined twice and a
\* self-loop, while a connection elsewhere stays outside it.
C10_Witness ==
    /\ hoveredEventId # null
    /\ Cardinality(highlightedEvents) = 2
    /\ \E j \in 1..Len(eventConnections), k \in 1..Len(eventConnections) :
          /\ j # k
          /\ eventConnections[j].fromEventId # eventConnections[j].toEventId
          /\ eventConnections[j].fromEventId = eventConnections[k].fromEventId
          /\ eventConnections[j].toEventId = eventConnections[k].toEventId
          /\ eventConnections[j].id \in DOMAIN highlightedConnectionInfo
    /\ \E k \in 1..Len(eventConnections) :
          /\ eventConnections[k].fromEventId = eventConnections[k].toEventId
          /\ eventConnections[k].id \in DOMAIN highlightedConnectionInfo
    /\ \E k \in 1..Len(eventConnections) :
          eventConnections[k].id \notin DOMAIN highlightedConnectionInfo

\* An isolated event hovered while other events are connected.
C10_WitnessIsolated ==
    /\ hoveredEventId # null
    /\ eventConnections # <<>>
    /\ \A k \in 1..Len(eventConnections) : ~Touches(eventConnections[k], hoveredEventId)

\* The positions of the connections of the highlighted component.
Coloured ==
    {k \in 1..Len(eventConnections) :
        eventConnections[k].id \in DOMAIN highlightedConnectionInfo}

SharesEndpoint(c, d) ==
    \/ Touches(d, c.fromEventId)
    \/ Touches(d, c.toEventId)

ColourOf(k) == highlightedConnectionInfo[eventConnections[k].id]

\* The connections earlier in the list than connection k that touch one of
\* its endpoints.
EarlierAround(k) ==
    {j \in 1..(k - 1) : SharesEndpoint(eventConnections[k], eventConnections[j])}

\* C9 as claimed: with an event hovered, two distinct connections of the
\* highlighted component that share an endpoint never have the same colour
\* index, whatever the connection list.
C9_SharedEndpointColoursDiffer ==
    hoveredEventId # null =>
        \A j \in Coloured : \A k \in Coloured :
            (j < k /\ SharesEndpoint(eventConnections[k], eventConnections[j])) =>
                ColourOf(j) # ColourOf(k)

\* C9 as the code has it: the two colour indices differ whenever fewer
\* than HighlightColorCount connections earlier in the list than the later
\* of the two touch one of its endpoints.
C9_ColoursDifferBelowPalette ==
    hoveredEventId # null =>
        \A j \in Coloured : \A k \in Coloured :
            (/\ j < k
             /\ SharesEndpoint(eventConnections[k], eventConnections[j])
             /\ Cardinality(EarlierAround(k)) < HighlightColorCount) =>
                ColourOf(j) # ColourOf(k)

\* A component in which a connection has six earlier connections around
\* its endpoints and takes the last colour index of the palette, with a
\* self-loop among the coloured connections.
C9_Witness ==
    /\ hoveredEventId # null
    /\ \E k \in Coloured :
          /\ Cardinality(EarlierAround(k)) = HighlightColorCount - 1
          /\ ColourOf(k) = HighlightColorCount - 1
    /\ \E k \in Coloured :
          eventConnections[k].fromEventId = eventConnections[k].toEventId

\* The highlighted set the memo computes when the event id is hovered, on
\* the connection list of the state.
HighlightedFor(id) == Highlight(id, eventConnections).highlightedEvents

\* C11: for any two events A and B, A is in the highlighted set computed
\* for hovered B if and only if B is in the highlighted set computed for
\* hovered A, whatever the direction of the connections.
C11_ComponentSymmetric ==
    \A a \in EventIds : \A b \in EventIds :
        a \in HighlightedFor(b) <=> b \in HighlightedFor(a)

\* The target of a connection is hovered and the source, which only a
\* step against the direction of the connection reaches, is highlighted,
\* while a third event is in neither's set.
C11_Witness ==
    /\ hoveredEventId # null
    /\ \E k \in 1..Len(eventConnections) :
          /\ eventConnections[k].toEventId = hoveredEventId
          /\ eventConnections[k].fromEventId # hoveredEventId
          /\ eventConnections[k].fromEventId \in highlightedEvents
          /\ \A j \in 1..Len(eventConnections) :
                eventConnections[j].fromEventId # hoveredEventId
    /\ \E c \in EventIds : c \notin highlightedEvents

----------------------------------------------------------------------------
(* Claims about the layout as a function of its inputs.                   *)

\* What the timeline draws of a layout: rectangles, day columns, lanes,
\* day order, canvas size and connection paths.
Drawn(l) ==
    [eventLayouts |-> l.eventLayouts, dayColumnGeometries |-> l.dayColumnGeometries,
     laneGeometries |-> l.laneGeometries, sortedUniqueDays |-> l.sortedUniqueDays,
     canvasWidth |-> l.canvasWidth, totalHeight |-> l.totalHeight,
     connectionPaths |-> l.connectionPaths]

\* The inputs of the state as the layout memo leaves them.
InputsLeft ==
    InputsAfterLayout(filteredEvents(events, searchTerm), storylines, eraOrder,
                      expandedEvents, eventConnections)

----------------------------------------------------------------------------
(* Claims about date texts the program does not recognize.                *)

\* The date text is not empty, is not BC notation, is not a Gregorian
\* YYYY-MM-DD date and does not start with a name of eraOrder.
Unrecognized(date) ==
    /\ date # <<>>
    /\ BcMatch(trim(date)) = <<>>
    /\ ~GregorianDayMatches(trim(date))
    /\ \A i \in 1..Len(eraOrder) : ~startsWith(trim(date), eraOrder[i])

\* C13: an unrecognized date text makes neither normalizeDate nor
\* formatDisplayDate fail: normalizeDate gives +Infinity, formatDisplayDate
\* gives the text back unchanged, and in the layout the day column of the
\* event lies to the right of the column of every laid-out event with a
\* recognized date.
C13_UnrecognizedDatesLast ==
    \A a \in DOMAIN Rects :
        Unrecognized(Rects[a].event.date) =>
            /\ normalizeDate(Rects[a].event.date, eraOrder) = Infinity
            /\ formatDisplayDate(Rects[a].event.date, eraOrder) = Rects[a].event.date
            /\ \A b \in DOMAIN Rects :
                  ~Unrecognized(Rects[b].event.date) => ColumnXOf(b) < ColumnXOf(a)

----------------------------------------------------------------------------
(* Claims about the canvas and the lanes.                                 *)

\* The events given to the timeline.
Shown == filteredEvents(events, searchTerm)

Columns == layout.dayColumnGeometries

Lanes == layout.laneGeometries

\* The greatest right edge of a day column.
RightmostEdge ==
    CHOOSE r \in {Columns[d].x + Columns[d].width : d \in DOMAIN Columns} :
        \A d \in DOMAIN Columns : Columns[d].x + Columns[d].width <= r

\* The statement of C14 with the least total height given as laneFloor:
\* canvasWidth is x + width of the rightmost day column when there is a
\* complete event and 2 * PADDING_X = 40 when there is none; totalHeight is
\* y + height of the last lane when there is a storyline and the floor
\* otherwise; with no events the event, column and path maps are empty,
\* with no storylines the lane and event maps are empty, with no
\* connections the path map is empty.
CanvasSizeWithFloor(laneFloor) ==
    /\ (\E k \in 1..Len(Shown) : ~Lacking(Shown[k])) =>
          /\ DOMAIN Columns # {}
          /\ layout.canvasWidth = RightmostEdge
    /\ (\A k \in 1..Len(Shown) : Lacking(Shown[k])) =>
          /\ layout.canvasWidth = 2 * PADDING_X
          /\ layout.canvasWidth = 40
    /\ storylines # <<>> =>
          layout.totalHeight = Lanes[storylines[Len(storylines)]].y
                               + Lanes[storylines[Len(storylines)]].height
    /\ storylines = <<>> =>
          /\ layout.totalHeight = laneFloor
          /\ DOMAIN Lanes = {}
          /\ DOMAIN Rects = {}
    /\ Shown = <<>> =>
          /\ DOMAIN Rects = {}
          /\ DOMAIN Columns = {}
          /\ layout.sortedUniqueDays = <<>>
          /\ DOMAIN layout.connectionPaths = {}
    /\ eventConnections = <<>> => DOMAIN layout.connectionPaths = {}

\* C14 as claimed: the canvas and lane properties above, the floor of
\* totalHeight being MIN_LANE_HEIGHT = 100.
C14_CanvasSizeFloor100 ==
    /\ MIN_LANE_HEIGHT = 100
    /\ CanvasSizeWithFloor(100)

\* C14 as the code has it: the canvas and lane properties above, the floor
\* of totalHeight being MIN_LANE_HEIGHT = CAPSULE_HEIGHT +
\* 2 * LANE_VERTICAL_PADDING = 80.
C14_CanvasSize ==
    /\ MIN_LANE_HEIGHT = 80
    /\ CanvasSizeWithFloor(MIN_LANE_HEIGHT)

\* Two day columns and two lanes, the lower lane raised by an expanded
\* event, and a routed connection.
C14_Witness ==
    /\ Len(layout.sortedUniqueDays) = 2
    /\ Len(storylines) >= 2
    /\ Lanes[storylines[Len(storylines)]].height > MIN_LANE_HEIGHT
    /\ DOMAIN layout.connectionPaths # {}

\* Events and a connection are left in a script whose storylines have all
\* been deleted: no lane, no column, the canvas at its floor.
C14_WitnessFloor ==
    /\ events # <<>>
    /\ eventConnections # <<>>
    /\ storylines = <<>>
    /\ storylineSerial > 0

----------------------------------------------------------------------------
(* Claims about the drop target.                                          *)

\* The storylines whose lane band [y, y + height) contains the pointer.
LanesAt(y2) ==
    {s \in DOMAIN layout.laneGeometries :
        /\ y2 >= 2 * layout.laneGeometries[s].y
        /\ y2 < 2 * (layout.laneGeometries[s].y + layout.laneGeometries[s].height)}

\* The columns, by their place from the left, whose right edge plus half
\* the gap between columns is right of the pointer.
ColumnsRightOf(x) ==
    {i \in 1..Len(layout.sortedUniqueDays) :
        2 * x < 2 * (Columns[layout.sortedUniqueDays[i]].x
                     + Columns[layout.sortedUniqueDays[i]].width) + EVENT_GAP}

\* The dates of the member events of column i.
MemberDates(i) ==
    {layout.sortedEvents[k].event.date :
        k \in {j \in 1..Len(layout.sortedEvents) :
                  layout.sortedEvents[j].dayKey = layout.sortedUniqueDays[i]}}

\* The calendar day after the day a Gregorian date text names, at midnight.
DayAfter(date) ==
    IsoDay(NextDay(<<parseInt(SubSeq(date, 1, 4)), parseInt(SubSeq(date, 6, 7)),
                     parseInt(SubSeq(date, 9, 10))>>)) \o Midnight

\* The date the drop target is to have for a pointer at x.
IsClaimedDate(date, x) ==
    IF ColumnsRightOf(x) # {}
    THEN date \in MemberDates(CHOOSE i \in ColumnsRightOf(x) :
                                  \A j \in ColumnsRightOf(x) : i <= j)
    ELSE \E last \in MemberDates(Len(layout.sortedUniqueDays)) :
            IF GregorianDayMatches(last) THEN date = DayAfter(last) ELSE date = last

\* What getDropTarget is to return for the pointer at point.
IsClaimedTarget(result, point) ==
    /\ ~Throws(result)
    /\ result = nullTarget <=> LanesAt(point[2]) = {}
    /\ result # nullTarget => /\ result.storylineId \in LanesAt(point[2])
                              /\ IsClaimedDate(result.date, point[1])

\* C15: when at least one day column exists, getDropTarget(x, y) returns
\* null exactly when y lies in no lane band; otherwise the storyline whose
\* band contains y, with the date of a member event of the first column
\* whose right edge plus half the gap is right of x, or, beyond every
\* column, the calendar day after the last column's date at 00:00:00 when
\* that date is Gregorian and the last column's date verbatim otherwise.
C15_DropTarget ==
    layout.sortedUniqueDays # <<>> =>
        \A point \in PointerPoints, env \in PointerEnvs :
            IsClaimedTarget(DropTarget(point, env), point)

\* C16: with no day column at all and at least one storyline, getDropTarget
\* returns for every pointer position the first storyline of the list and
\* today's date at 00:00:00.
C16_NoColumnsTarget ==
    (layout.sortedUniqueDays = <<>> /\ Len(storylines) > 0) =>
        \A point \in PointerPoints, env \in PointerEnvs :
            DropTarget(point, env) = [storylineId |-> storylines[1],
                                      date |-> env.today \o Midnight]

----------------------------------------------------------------------------
(* Claims about the connect gesture.                                      *)

\* The laid-out events whose rectangle the point lies in.
EventsUnder(point) ==
    {id \in DOMAIN layout.eventLayouts : Contains(layout.eventLayouts[id], point)}

\* This step is the window's mouseup listener running.
IsMouseUpStep == "mouseup" \in listeners /\ listeners' = {}

\* This step is the window's mousemove listener running.
IsMouseMoveStep == "mousemove" \in listeners /\ listeners' = listeners

\* One connection source -> target was appended and nothing else changed.
ConnectionAppended(source, target) ==
    /\ Len(eventConnections') = Len(eventConnections) + 1
    /\ SubSeq(eventConnections', 1, Len(eventConnections)) = eventConnections
    /\ eventConnections'[Len(eventConnections')].fromEventId = source
    /\ eventConnections'[Len(eventConnections')].toEventId = target
    /\ UNCHANGED <<events, storylines, editingEvent, isEventModalOpen>>

\* Neither the script nor the event form changed.
NothingChanged ==
    UNCHANGED <<events, storylines, eventConnections, editingEvent, isEventModalOpen>>

\* An add-event request with the target and the source was issued and
\* nothing else changed.
AddEventRequested(source, target) ==
    /\ isEventModalOpen'
    /\ editingEvent' = [storylineId |-> target.storylineId, date |-> target.date,
                        connectFrom |-> source]
    /\ UNCHANGED <<events, storylines, eventConnections>>

\* The outcome claimed for the gesture from source released at point.
ClaimedOutcome(source, point, env) ==
    IF point = nullPoint THEN NothingChanged
    ELSE IF EventsUnder(point) \ {source} # {}
    THEN \E target \in EventsUnder(point) \ {source} : ConnectionAppended(source, target)
    ELSE IF source \in EventsUnder(point) THEN NothingChanged
    ELSE IF Throws(DropTarget(point, env)) \/ DropTarget(point, env) = nullTarget
    THEN NothingChanged
    ELSE AddEventRequested(source, DropTarget(point, env))

\* C18: every connect gesture ends at mouse-up in the idle state, the
\* listeners removed, with one connection source -> target appended when
\* released over another laid-out event, nothing changed when released over
\* the source, an add-event request with storyline, date and the source when
\* released over empty canvas with a drop target, and nothing otherwise;
\* pointer moves change only the end position; no step adds a self-loop or
\* alters or removes an existing connection.
C18_ConnectGesture ==
    [][/\ IsMouseUpStep =>
            /\ connectingState' = Idle
            /\ \E point \in PointerPoints \cup {nullPoint}, env \in PointerEnvs :
                  ClaimedOutcome(connectingState.sourceEventId, point, env)
       /\ IsMouseMoveStep =>
            /\ connectingState' = [connectingState EXCEPT !.endPos = connectingState'.endPos]
            /\ NothingChanged
       /\ Len(eventConnections') >= Len(eventConnections)
       /\ SubSeq(eventConnections', 1, Len(eventConnections)) = eventConnections
       /\ \A k \in (Len(eventConnections) + 1)..Len(eventConnections') :
             eventConnections'[k].fromEventId # eventConnections'[k].toEventId]_vars

----------------------------------------------------------------------------
(* Claims about the round trip of dates through the event form.           *)

\* A date part padded with zeros to two digits.
TwoDigits(part) == IF Len(part) >= 2 THEN part ELSE IF Len(part) = 1 THEN <<"0">> \o part
                   ELSE <<"0", "0">>

\* The year as the date text carries it: Gregorian years are padded with
\* zeros to four digits.
YearText(form) ==
    IF form.era = GregorianAnchor /\ Len(form.parts.year) < 4
    THEN [k \in 1..(4 - Len(form.parts.year)) |-> "0"] \o form.parts.year
    ELSE form.parts.year

\* The time of day the form stands for: the time fields count when they
\* are shown.
TimeOfDay(form) ==
    [hour   |-> IF form.showTime THEN TwoDigits(form.parts.hour) ELSE <<"0", "0">>,
     minute |-> IF form.showTime THEN TwoDigits(form.parts.minute) ELSE <<"0", "0">>,
     second |-> IF form.showTime THEN TwoDigits(form.parts.second) ELSE <<"0", "0">>]

\* The time of day is part of what is shown: for a Gregorian date when a
\* time was entered, for a custom era unless the time is 00:00:00.
HasTimeSuffix(form) ==
    IF form.era = GregorianAnchor
    THEN form.showTime /\ (form.parts.hour # <<>> \/ form.parts.minute # <<>>
                           \/ form.parts.second # <<>>)
    ELSE TimeOfDay(form) # [hour |-> <<"0", "0">>, minute |-> <<"0", "0">>,
                            second |-> <<"0", "0">>]

\* What the timeline is to show for the form's date.
ClaimedDisplay(form) ==
    (IF form.era = GregorianAnchor THEN <<>> ELSE form.era \o <<" ">>)
    \o YearText(form) \o <<"nian">> \o TwoDigits(form.parts.month) \o <<"yue">>
    \o TwoDigits(form.parts.day) \o <<"ri">>
    \o (IF HasTimeSuffix(form)
        THEN <<" ">> \o TimeOfDay(form).hour \o <<":">> \o TimeOfDay(form).minute
             \o <<":">> \o TimeOfDay(form).second
        ELSE <<>>)

\* What the form is to hold when the event is opened again.
ClaimedFormState(form) ==
    [selectedEra |-> form.era,
     dateParts |-> [year |-> YearText(form), month |-> TwoDigits(form.parts.month),
                    day |-> TwoDigits(form.parts.day), hour |-> TimeOfDay(form).hour,
                    minute |-> TimeOfDay(form).minute, second |-> TimeOfDay(form).second],
     showTime |-> HasTimeSuffix(form)]

\* The date text of the form decodes to what the form stands for.
RoundTrips(form) ==
    /\ formatDisplayDate(FinalDate(form.era, form.parts, form.showTime), eraOrder)
       = ClaimedDisplay(form)
    /\ EditFormState(FinalDate(form.era, form.parts, form.showTime), eraOrder, Today)
       = ClaimedFormState(form)

\* C17: for every era of eraOrder and every choice of date parts, the date
\* text the form's submit builds decodes, through formatDisplayDate and
\* through the form's edit-mode parser, to the same era and the same year,
\* month, day, hour, minute and second padded with zeros to two digits; the
\* time of day is left out exactly when it is 00:00:00 (custom era) or no
\* time was entered (Gregorian).
C17_DateRoundTrip ==
    \A form \in FilledForms(EraNames) : RoundTrips(form)

----------------------------------------------------------------------------
(* Claims about the day columns.                                          *)

\* The places in the event list of the complete events with the day key.
CompleteOfDay(dayKey) ==
    {k \in 1..Len(events) : IsComplete(events[k]) /\ getDayKey(events[k].date) = dayKey}

\* The order key of the event at place k of the event list.
OrderKey(k) == normalizeDate(events[k].date, eraOrder)

\* The event at place j comes before the event at place k in chronological
\* order, events with equal order keys in the order of the list.
ComesBefore(j, k) ==
    \/ KeyLess(OrderKey(j), OrderKey(k))
    \/ ~KeyLess(OrderKey(k), OrderKey(j)) /\ j < k

\* The day's earliest event is not later than the earliest of the other day.
EarliestNotLater(dayKey, otherDayKey) ==
    \E j \in CompleteOfDay(dayKey) :
        \A k \in CompleteOfDay(otherDayKey) : ~KeyLess(OrderKey(k), OrderKey(j))

\* The place of the event in its day's chronologically sorted group, from 0.
IndexInDay(k) ==
    Cardinality({j \in CompleteOfDay(getDayKey(events[k].date)) : ComesBefore(j, k)})

\* The days whose column spans the rectangle of the laid-out event.
ColumnsOf(id) ==
    {d \in DOMAIN Columns :
        /\ Columns[d].x <= Rects[id].x
        /\ Rects[id].x + Rects[id].width <= Columns[d].x + Columns[d].width}

\* sortedUniqueDays lists each day key of a complete event once, in the
\* order of the days' earliest events.
DaysListed ==
    /\ \A k \in 1..Len(events) :
          IsComplete(events[k]) =>
              Cardinality({i \in 1..Len(layout.sortedUniqueDays) :
                              layout.sortedUniqueDays[i] = getDayKey(events[k].date)}) = 1
    /\ \A i \in 1..Len(layout.sortedUniqueDays) :
          CompleteOfDay(layout.sortedUniqueDays[i]) # {}
    /\ \A i \in 1..Len(layout.sortedUniqueDays), j \in 1..Len(layout.sortedUniqueDays) :
          i < j => EarliestNotLater(layout.sortedUniqueDays[i], layout.sortedUniqueDays[j])

\* The columns stand side by side, each as wide as its most indented event.
ColumnsPlaced ==
    \A i \in 1..Len(layout.sortedUniqueDays) :
        /\ Columns[layout.sortedUniqueDays[i]].x
           = IF i = 1 THEN 20
             ELSE Columns[layout.sortedUniqueDays[i - 1]].x
                  + Columns[layout.sortedUniqueDays[i - 1]].width + 80
        /\ Columns[layout.sortedUniqueDays[i]].width
           = 200 + 20 * Min(Cardinality(CompleteOfDay(layout.sortedUniqueDays[i])) - 1, 10)

\* Each laid-out event is indented by its place in the day, and two are in
\* the same column exactly when their day keys are equal.
EventsPlaced ==
    /\ \A k \in 1..Len(events) :
          events[k].id \in DOMAIN Rects =>
              Rects[events[k].id].x
              = Columns[getDayKey(events[k].date)].x + 20 * Min(IndexInDay(k), 10)
    /\ \A j \in 1..Len(events), k \in 1..Len(events) :
          (events[j].id \in DOMAIN Rects /\ events[k].id \in DOMAIN Rects) =>
              /\ Cardinality(ColumnsOf(events[j].id)) = 1
              /\ (ColumnsOf(events[j].id) = ColumnsOf(events[k].id)
                  <=> getDayKey(events[j].date) = getDayKey(events[k].date))

\* C19: sortedUniqueDays lists each day key of a complete event exactly
\* once, ordered by the order key of the day's earliest event; the first
\* column starts at x = 20 and each next one at the previous x + width + 80;
\* a column is 200 + 20*min(n-1, 10) wide for n complete events of the day;
\* an event's x is its column's x + 20*min(i, 10) for its index i in the
\* day's chronological order; two laid-out events are in the same column
\* exactly when their day keys are equal.
C19_DayColumns == DaysListed /\ ColumnsPlaced /\ EventsPlaced

\* A day of more than eleven events, so that the last ones are indented no
\* further than the eleventh, beside another column, the event without a
\* time of day first in its column although it is stored behind the others.
C19_Witness ==
    /\ Len(layout.sortedUniqueDays) >= 2
    /\ \E k \in 1..Len(events) :
          /\ events[k].id \in DOMAIN Rects
          /\ IndexInDay(k) > 10
          /\ Rects[events[k].id].x = Columns[getDayKey(events[k].date)].x + 200
    /\ \E j \in 1..Len(events), k \in 1..Len(events) :
          /\ j < k
          /\ events[j].id \in DOMAIN Rects /\ events[k].id \in DOMAIN Rects
          /\ getDayKey(events[j].date) = getDayKey(events[k].date)
          /\ events[j].date # events[k].date
          /\ Rects[events[k].id].x < Rects[events[j].id].x

----------------------------------------------------------------------------
(* Claims about the lanes.                                                *)

\* The heights of the day-stacks of the storyline: the events of one day in
\* the lane, one under the other with the gaps between them.
StackHeights(storylineId) ==
    LaneColumnHeights(LaneEvents(layout.sortedEvents, storylineId),
                      layout.sortedUniqueDays, expandedEvents, eventConnections)

\* The tallest day-stack of the storyline, 0 when it has no event.
TallestStack(storylineId) ==
    CHOOSE h \in StackHeights(storylineId) : \A g \in StackHeights(storylineId) : g <= h

\* The sum of the heights of the first n lanes in the order of the list.
RECURSIVE HeightsBefore(_)
HeightsBefore(n) ==
    IF n = 0 THEN 0 ELSE HeightsBefore(n - 1) + Lanes[storylines[n]].height

\* The statement of C20 about one layout, the least lane height given as
\* laneFloor: every storyline has a lane, as high as its tallest day-stack
\* plus 40 and at least laneFloor, placed under the lanes before it in the
\* list, the lanes pairwise disjoint.
LanesWithFloor(laneFloor) ==
    /\ DOMAIN Lanes = StorylineIds
    /\ \A i \in 1..Len(storylines) :
          /\ Lanes[storylines[i]].height
             = Max(laneFloor, TallestStack(storylines[i]) + 40)
          /\ Lanes[storylines[i]].y = HeightsBefore(i - 1)
          /\ i = 1 => Lanes[storylines[i]].y = 0
          /\ i > 1 => Lanes[storylines[i]].y
                      = Lanes[storylines[i - 1]].y + Lanes[storylines[i - 1]].height
    /\ \A s \in StorylineIds, t \in StorylineIds :
          s # t => \/ Lanes[s].y + Lanes[s].height <= Lanes[t].y
                   \/ Lanes[t].y + Lanes[t].height <= Lanes[s].y

\* A step that only reorders the storyline list leaves every lane's height
\* as it was.
ReorderKeepsHeights ==
    (/\ storylines' # storylines
     /\ {storylines'[i] : i \in 1..Len(storylines')} = StorylineIds
     /\ Len(storylines') = Len(storylines)
     /\ UNCHANGED <<events, eventTypes, eraOrder, eventConnections, expandedEvents>>)
    => \A s \in StorylineIds :
          layout'.laneGeometries[s].height = layout.laneGeometries[s].height

\* C20 as claimed: every storyline gets a lane of height max(100, tallest
\* day-stack + 40); the first lane is at y = 0 and each lane at the sum of
\* the heights of the lanes before it in list order, so the lanes are
\* contiguous and pairwise disjoint; reordering the list reorders the lanes
\* without changing any lane's height.
C20_LaneGeometryFloor100 ==
    [](LanesWithFloor(100)) /\ [][ReorderKeepsHeights]_vars

\* C20 with the least lane height the program has, MIN_LANE_HEIGHT =
\* CAPSULE_HEIGHT + 2*LANE_VERTICAL_PADDING = 80.
C20_LaneGeometry ==
    [](MIN_LANE_HEIGHT = 80 /\ LanesWithFloor(80)) /\ [][ReorderKeepsHeights]_vars

\* The list reordered so that a lane taller than the floor, with two events
\* of one day, lies under a lane of the least height.
C20_Witness ==
    /\ Len(storylines) >= 2
    /\ storylines[1] # "s1"
    /\ \E i \in 2..Len(storylines) :
          /\ storylines[i] = "s1"
          /\ Lanes["s1"].height > 80
          /\ Lanes[storylines[1]].height = 80
          /\ Lanes["s1"].y >= 80

----------------------------------------------------------------------------
(* Claims about the stacks of a lane.                                     *)

\* The ids of the laid-out events of one storyline and day key.
StackOf(storylineId, dayKey) ==
    {id \in DOMAIN Rects : /\ Rects[id].event.storylineId = storylineId
                           /\ Rects[id].dayKey = dayKey}

\* Twice the y of the top of the first (highest) laid-out event of a stack.
StackTop2(stack) ==
    CHOOSE y \in {Rects[id].y2 : id \in stack} :
        \A id \in stack : y <= Rects[id].y2

\* Twice the y of the bottom of the last (lowest) laid-out event of a stack.
StackBottom2(stack) ==
    CHOOSE y \in {Rects[id].y2 + 2 * Rects[id].height : id \in stack} :
        \A id \in stack : Rects[id].y2 + 2 * Rects[id].height <= y

StackSeq(storylineId, dayKey) ==
    DayGroup(LaneEvents(layout.sortedEvents, storylineId), dayKey)

\* Some connection has exactly the events a and b as its two ends.
Linked(a, b) ==
    \E k \in 1..Len(eventConnections) :
        {eventConnections[k].fromEventId, eventConnections[k].toEventId} = {a, b}

\* C22: every laid-out event has height EVENT_CARD_HEIGHT (120) if its id is
\* in the expanded set and CAPSULE_HEIGHT (40) otherwise; for two consecutive
\* events of the same lane and day key, the top of the second is at the
\* bottom of the first plus SAME_DAY_CONNECTED_EVENT_GAP (40) if some
\* connection links exactly these two events in either direction, and plus
\* SAME_DAY_VERTICAL_GAP (25) otherwise.
C22_StackSpacing ==
    /\ EVENT_CARD_HEIGHT = 120 /\ CAPSULE_HEIGHT = 40
    /\ SAME_DAY_CONNECTED_EVENT_GAP = 40 /\ SAME_DAY_VERTICAL_GAP = 25
    /\ \A id \in DOMAIN Rects :
          Rects[id].height = IF id \in expandedEvents THEN 120 ELSE 40
    /\ \A id \in DOMAIN Rects :
          LET stack == StackSeq(Rects[id].event.storylineId, Rects[id].dayKey)
          IN  \A i \in 1..(Len(stack) - 1) :
                 LET first  == stack[i].event.id
                     second == stack[i + 1].event.id
                 IN  /\ first \in DOMAIN Rects /\ second \in DOMAIN Rects
                     /\ first # second /\ Linked(first, second)
                           => Rects[second].y2
                              = Rects[first].y2 + 2 * Rects[first].height + 2 * 40
                     /\ ~Linked(first, second)
                           => Rects[second].y2
                              = Rects[first].y2 + 2 * Rects[first].height + 2 * 25

\* A stack of three events, the first expanded, the second and third
\* collapsed, with a connection from the second event up to the first and
\* none between the second and the third.
C22_Witness ==
    \E id \in DOMAIN Rects :
        LET stack == StackSeq(Rects[id].event.storylineId, Rects[id].dayKey)
        IN  /\ Len(stack) = 3
            /\ stack[1].event.id \in expandedEvents
            /\ stack[2].event.id \notin expandedEvents
            /\ \E k \in 1..Len(eventConnections) :
                  /\ eventConnections[k].fromEventId = stack[2].event.id
                  /\ eventConnections[k].toEventId = stack[1].event.id
            /\ ~Linked(stack[2].event.id, stack[3].event.id)
            /\ Rects[stack[2].event.id].y2 = Rects[stack[1].event.id].y2 + 2 * 160
            /\ Rects[stack[3].event.id].y2 = Rects[stack[2].event.id].y2 + 2 * 65

----------------------------------------------------------------------------
(* Claims about the anchor sides of a connection.                         *)

\* The point lies on that edge of the rectangle, corners included.
OnEdge(point, rect, side) ==
    /\ OnSide(point, rect, side)
    /\ ~RLess(AlongSide(point, side), SideOrigin(rect, side))
    /\ ~RLess(RAdd(SideOrigin(rect, side), RInt(SideLength(rect, side))),
              AlongSide(point, side))

\* The path of a connection starts on one edge of its source and ends on
\* one edge of its target.
Joins(conn, fromSide, toSide) ==
    /\ OnEdge(Paths[conn.id].from, Rects[conn.fromEventId], fromSide)
    /\ OnEdge(Paths[conn.id].to, Rects[conn.toEventId], toSide)

DayKeyOf(id) == getDayKey(Rects[id].event.date)

\* C23: if the two endpoint events of a routed connection share a day key,
\* its start point lies on the bottom edge of the source when the source is
\* above the target (source.y < target.y) and its end point on the target's
\* top edge, and on the source's top edge / target's bottom edge otherwise
\* (a self-loop runs from the event's top edge to its bottom edge); if the
\* day keys differ, the endpoint on the event in the left column lies on
\* that event's right edge and the endpoint on the event in the right column
\* on that event's left edge.  Both endpoints lie on the boundary of their
\* event's rectangle.
C23_AnchorSides ==
    \A k \in Routed :
        LET conn == eventConnections[k]
            from == Rects[conn.fromEventId]
            to   == Rects[conn.toEventId]
        IN  /\ DayKeyOf(conn.fromEventId) = DayKeyOf(conn.toEventId) =>
                  IF from.y2 < to.y2 THEN Joins(conn, "bottom", "top")
                  ELSE Joins(conn, "top", "bottom")
            /\ DayKeyOf(conn.fromEventId) # DayKeyOf(conn.toEventId) =>
                  IF Columns[DayKeyOf(conn.fromEventId)].x
                     < Columns[DayKeyOf(conn.toEventId)].x
                  THEN Joins(conn, "right", "left")
                  ELSE Joins(conn, "left", "right")
            /\ conn.fromEventId = conn.toEventId => Joins(conn, "top", "bottom")
            /\ \E fromSide \in Sides, toSide \in Sides : Joins(conn, fromSide, toSide)

\* A routed self-loop, a routed connection from the lower event of a stack
\* to the upper one, and a routed connection from an event of the right
\* column to one of the left column.
C23_Witness ==
    /\ \E k \in Routed : eventConnections[k].fromEventId = eventConnections[k].toEventId
    /\ \E k \in Routed :
          /\ eventConnections[k].fromEventId # eventConnections[k].toEventId
          /\ DayKeyOf(eventConnections[k].fromEventId)
             = DayKeyOf(eventConnections[k].toEventId)
          /\ Rects[eventConnections[k].fromEventId].y2
             > Rects[eventConnections[k].toEventId].y2
    /\ \E k \in Routed :
          Rects[eventConnections[k].fromEventId].x
          > Rects[eventConnections[k].toEventId].x + EVENT_WIDTH

----------------------------------------------------------------------------
(* Claims about the colouring rule.                                       *)

\* The colour indices recorded as used at the endpoints of connection k when
\* its turn comes: those of the coloured connections before it in the list
\* that touch one of its endpoints.
UsedAround(k) ==
    {ColourOf(j) : j \in {i \in Coloured : i < k /\ i \in EarlierAround(k)}}

\* The smallest non-negative integer outside a finite set of them.
LeastFree(used) ==
    CHOOSE n \in 0..Cardinality(used) :
        n \notin used /\ \A m \in 0..(n - 1) : m \in used

\* C24: the connections of the hovered component are coloured in
\* connection-list order; each receives the smallest non-negative integer
\* not recorded as used at either of its two endpoints, reduced modulo 7,
\* and the index is then recorded as used at both endpoints.  The index is
\* always in 0..6, and whenever one of the 7 indices is unused at both
\* endpoints it differs from the index of every earlier-coloured connection
\* sharing an endpoint.
C24_GreedyColouring ==
    hoveredEventId # null =>
        \A k \in Coloured :
            /\ ColourOf(k) = LeastFree(UsedAround(k)) % 7
            /\ ColourOf(k) \in 0..6
            /\ (0..6) \ UsedAround(k) # {} =>
                  \A j \in Coloured :
                      (j < k /\ SharesEndpoint(eventConnections[k], eventConnections[j]))
                          => ColourOf(j) # ColourOf(k)

\* A component with a connection that finds all seven indices used at its
\* endpoints and takes 0 again, and a connection that finds six of them
\* used and takes the seventh.
C24_Witness ==
    /\ hoveredEventId # null
    /\ \E k \in Coloured : UsedAround(k) = 0..6 /\ ColourOf(k) = 0
    /\ \E k \in Coloured : UsedAround(k) = 0..5 /\ ColourOf(k) = 6

----------------------------------------------------------------------------
(* Claims about BC dates.                                                 *)

\* The date text is BC notation (lines 56-57).
IsBcDate(date) == date # <<>> /\ BcMatch(trim(date)) # <<>>

\* The date text is a Gregorian YYYY-MM-DD date (lines 60-61).
IsGregorianDate(date) ==
    date # <<>> /\ ~IsBcDate(date) /\ GregorianDayMatches(trim(date))

\* C25: BC dates precede the Gregorian calendar in the sort order: for every
\* BC date and every Gregorian YYYY-MM-DD date, normalizeDate of the BC date
\* is strictly smaller than normalizeDate of the Gregorian date, so every BC
\* column is left of every Gregorian column.
C25_BcBeforeGregorian ==
    \A i \in 1..Len(events) : \A j \in 1..Len(events) :
        (IsBcDate(events[i].date) /\ IsGregorianDate(events[j].date)) =>
            /\ KeyLess(normalizeDate(events[i].date, eraOrder),
                       normalizeDate(events[j].date, eraOrder))
            /\ (events[i].id \in DOMAIN Rects /\ events[j].id \in DOMAIN Rects) =>
                  ColumnXOf(events[i].id) < ColumnXOf(events[j].id)

----------------------------------------------------------------------------
(* Claims about containment.                                              *)

\* C26: every rectangle in eventLayouts lies inside its storyline's lane
\* band with at least LANE_VERTICAL_PADDING (20) above and below it, inside
\* the horizontal extent [column.x, column.x + column.width] of its day
\* column, and therefore inside the canvas [0, canvasWidth] x
\* [0, totalHeight]; every laid-out event references a storyline of the
\* storyline list and an event type of the event-type list.
C26_Containment ==
    /\ LANE_VERTICAL_PADDING = 20
    /\ \A id \in DOMAIN Rects :
          /\ Rects[id].event.storylineId \in StorylineIds
          /\ Rects[id].event.typeId \in EventTypeIds
          /\ Rects[id].event.storylineId \in DOMAIN Lanes
          /\ getDayKey(Rects[id].event.date) \in DOMAIN Columns
    /\ \A id \in DOMAIN Rects :
          LET rect   == Rects[id]
              lane   == Lanes[rect.event.storylineId]
              column == Columns[getDayKey(rect.event.date)]
          IN  /\ 2 * (lane.y + 20) <= rect.y2
              /\ rect.y2 + 2 * rect.height <= 2 * (lane.y + lane.height - 20)
              /\ column.x <= rect.x
              /\ rect.x + rect.width <= column.x + column.width
              /\ 0 <= rect.x /\ rect.x + rect.width <= layout.canvasWidth
              /\ 0 <= rect.y2 /\ rect.y2 + 2 * rect.height <= 2 * layout.totalHeight

\* An indented event whose right edge is the right edge of its column, an
\* event with exactly the padding above it in a lane that is not the first,
\* and an event left without a storyline, which is not laid out.
C26_Witness ==
    /\ \E id \in DOMAIN Rects :
          LET column == Columns[getDayKey(Rects[id].event.date)]
          IN  /\ Rects[id].x > column.x
              /\ Rects[id].x + Rects[id].width = column.x + column.width
    /\ \E id \in DOMAIN Rects :
          LET lane == Lanes[Rects[id].event.storylineId]
          IN  lane.y > 0 /\ Rects[id].y2 = 2 * (lane.y + 20)
    /\ \E k \in 1..Len(events) :
          events[k].storylineId = null /\ events[k].id \notin DOMAIN Rects

----------------------------------------------------------------------------
(* Claims about expanding and collapsing.                                 *)

\* The indentation level of a laid-out event in a layout: its place among
\* the events of its day, from 0.
LevelIn(l, id) ==
    LET k == CHOOSE m \in 1..Len(l.sortedEvents) : l.sortedEvents[m].event.id = id
    IN  IndentationLevel(l.sortedEvents, l.sortedEvents[k])

\* The ids whose membership in the expanded set changes in the step.
Toggled == (expandedEvents' \ expandedEvents) \cup (expandedEvents \ expandedEvents')

\* A step that changes the expanded set and no other input of the layout.
OnlyExpansionChanges ==
    /\ expandedEvents' # expandedEvents
    /\ UNCHANGED <<events, storylines, eventTypes, eraOrder, eventConnections, searchTerm>>

\* What such a step leaves as it was, and what it may change.
ExpansionFrame ==
    OnlyExpansionChanges =>
        /\ layout'.sortedUniqueDays = layout.sortedUniqueDays
        /\ layout'.dayColumnGeometries = layout.dayColumnGeometries
        /\ layout'.canvasWidth = layout.canvasWidth
        /\ DOMAIN layout'.eventLayouts = DOMAIN layout.eventLayouts
        /\ DOMAIN layout'.laneGeometries = DOMAIN layout.laneGeometries
        /\ \A id \in DOMAIN layout.eventLayouts :
              /\ layout'.eventLayouts[id].x = layout.eventLayouts[id].x
              /\ layout'.eventLayouts[id].width = layout.eventLayouts[id].width
              /\ LevelIn(layout', id) = LevelIn(layout, id)
        /\ expandedEvents \subseteq expandedEvents' =>
              \A s \in DOMAIN layout.laneGeometries :
                  layout'.laneGeometries[s].height >= layout.laneGeometries[s].height
        /\ \A id \in Toggled :
              /\ newSet(expandedEvents', id) = expandedEvents
              /\ Layout(filteredEvents(events', searchTerm'), storylines', eventTypes',
                        eraOrder', newSet(expandedEvents', id), eventConnections')
                 = layout

\* Toggling an event twice gives the expanded set back.
TwiceRestores ==
    \A id \in DOMAIN Rects : newSet(newSet(expandedEvents, id), id) = expandedEvents

----------------------------------------------------------------------------
(* Claims about the ends of connections.                                  *)

\* Every connection starts and ends at an event of the script.
Integrity ==
    \A k \in 1..Len(eventConnections) :
        /\ eventConnections[k].fromEventId \in EventIds
        /\ eventConnections[k].toEventId \in EventIds

\* A step that takes the event with this id off the list takes exactly the
\* connections that start or end at it off the connection list, and leaves
\* the other events and the other connections as they were, in their order.
DeletesExactly(id) ==
    /\ events' = SelectSeq(events, LAMBDA e : e.id # id)
    /\ eventConnections' = SelectSeq(eventConnections, LAMBDA c : ~Touches(c, id))

DeleteEventStep ==
    \A k \in 1..Len(events) :
        events[k].id \notin {events'[j].id : j \in 1..Len(events')}
            => DeletesExactly(events[k].id)

\* C28: from a script in which every connection starts and ends at an
\* existing event, deleting events, adding connections (with the connection
\* form, a connect gesture or the event form) and deleting connections keep
\* it so; and deleting an event removes exactly the connections that start
\* or end at it, and changes no other connection and no other event.
C28_ReferentialIntegrity == [](Integrity) /\ [][DeleteEventStep]_vars

\* An event that had connections has been deleted, and an event made from
\* the request of a connect gesture remains with the connection from the
\* gesture's source and with a connection of a row of its form.
C28_Witness ==
    /\ Len(events) < eventSerial
    /\ Len(eventConnections) < connSerial
    /\ Len(eventConnections) >= 2
    /\ \E j \in 1..Len(events) :
          /\ events[j].title = <<"b">>
          /\ \E k \in 1..Len(eventConnections) :
                eventConnections[k].toEventId = events[j].id
          /\ \E k \in 1..Len(eventConnections) :
                eventConnections[k].fromEventId = events[j].id


----------------------------------------------------------------------------
(* Claims about reordering the storylines.                                *)

\* An id no storyline of the script has, as the drag of a lane header of
\* another window brings.
UnknownStorylineId == "s9"

\* list without the entries equal to id.
Without(list, id) == SelectSeq(list, LAMBDA s : s # id)

\* The storyline list after the drop of draggedId on the header at
\* dropIndex is as claimed: no storyline lost or duplicated, the dragged
\* one at dropIndex and the others in their former order; or the list as
\* it was when the id is unknown or the header is the storyline's own.
DropAsClaimed(draggedId, dropIndex) ==
    LET after == reorderedStorylines(storylines, draggedId, dropIndex)
        own   == \E k \in 1..Len(storylines) :
                    storylines[k] = draggedId /\ k - 1 = dropIndex
    IN  /\ Len(after) = Len(storylines)
        /\ {after[k] : k \in 1..Len(after)} = StorylineIds
        /\ draggedId \in StorylineIds
              => /\ after[dropIndex + 1] = draggedId
                 /\ Without(after, draggedId) = Without(storylines, draggedId)
        /\ (draggedId \notin StorylineIds \/ own) => after = storylines

\* C29: a lane header dropped on the header at dropIndex leaves a
\* permutation of the storyline list with the dragged storyline at
\* dropIndex and the others in their former order; an unknown id or the
\* storyline's own header leaves the list as it was.  Every drop permutes
\* the list, so every sequence of drops does.
C29_StorylineReorder ==
    \A draggedId \in StorylineIds \cup {UnknownStorylineId} :
        \A dropIndex \in 0..(Len(storylines) - 1) :
            DropAsClaimed(draggedId, dropIndex)

\* Three storylines, in an order that only drops can have made, from which
\* the first can be dropped on the last header and the last on the first.
C29_Witness ==
    /\ storylines = <<"s3", "s1", "s2">>
    /\ reorderedStorylines(storylines, "s3", 2) = <<"s1", "s2", "s3">>
    /\ reorderedStorylines(storylines, "s2", 0) = <<"s2", "s3", "s1">>
    /\ reorderedStorylines(storylines, "s1", 1) = storylines
    /\ reorderedStorylines(storylines, UnknownStorylineId, 1) = storylines


----------------------------------------------------------------------------
(* Claims about the active script.                                        *)

\* No script is active exactly when there is none, and the active script is
\* one of the list.
ActiveScriptExists ==
    /\ activeScriptId = null <=> scripts = <<>>
    /\ activeScriptId # null => activeScriptId \in ScriptIds

\* The ids of a script list, in its order.
IdsOf(list) == [k \in 1..Len(list) |-> list[k].id]

\* A step that adds a script makes it the active one.
CreateStep ==
    Len(scripts') = Len(scripts) + 1
        => /\ SubSeq(IdsOf(scripts'), 1, Len(scripts)) = IdsOf(scripts)
           /\ scripts'[Len(scripts')].id \notin ScriptIds
           /\ activeScriptId' = scripts'[Len(scripts')].id

\* A step that takes the k-th script off the list leaves the others in
\* their order; when it was the active one, the script that stands k-th
\* now is active, or the last one when there is no k-th, or none when the
\* list is empty; when it was not, the active script is the same.
DeleteStep ==
    \A k \in 1..Len(scripts) :
        scripts[k].id \notin {scripts'[j].id : j \in 1..Len(scripts')}
            => /\ IdsOf(scripts') = SubSeq(IdsOf(scripts), 1, k - 1)
                                    \o SubSeq(IdsOf(scripts), k + 1, Len(scripts))
               /\ scripts[k].id # activeScriptId => activeScriptId' = activeScriptId
               /\ scripts[k].id = activeScriptId
                     => activeScriptId' =
                            IF scripts' = <<>> THEN null
                            ELSE IF k <= Len(scripts') THEN scripts'[k].id
                            ELSE scripts'[Len(scripts')].id

\* C30: from a state whose active script exists, creating and deleting
\* scripts keeps activeScriptId null exactly when the list is empty and
\* otherwise the id of a script of the list; a created script is active;
\* deleting the active script activates the one now at its index, or the
\* last one; deleting another script leaves the active one.
C30_ActiveScript == [](ActiveScriptExists) /\ [][CreateStep /\ DeleteStep]_vars

\* Scripts were created and deleted, the first of the two left is active
\* and has an event, and the other holds an event too.
C30_Witness ==
    /\ scriptSerial = MaxScripts
    /\ Len(scripts) = 2
    /\ activeScriptId = scripts[1].id
    /\ activeScriptId # ScriptIdSeq[1]
    /\ events # <<>>
    /\ scripts[2].data.events # <<>>

\* Every script was deleted.
C30_WitnessEmpty == scripts = <<>> /\ activeScriptId = null /\ scriptSerial > 1

====
